---- MODULE Spec2Model ----
(***************************************************************************)
(* Model of the Model API Adapter and streaming translation layer of Kode: *)
(* the Chat-Completions adapter (src/services/adapters/chatCompletions.ts),*)
(* the Responses-API adapter (src/services/adapters/responsesAPI.ts and    *)
(* its later revision, src/unnamed/part_017) and the adapter base class    *)
(* (src/unnamed/part_016).                                                 *)
(*                                                                         *)
(* Representation.  A response body is a sequence of atoms.  "NL" is the   *)
(* newline character, "SP" one whitespace character (blank or carriage     *)
(* return), "D" the six characters `data: `, "C" some text that is no      *)
(* `data: ` prefix (an SSE comment or an `event:` field), "DONE" the text  *)
(* `[DONE]`, "X" a fragment that is not a complete JSON text, and every    *)
(* other atom is one complete JSON text, named after the value it parses   *)
(* to (ChatDoc, RespDoc).  Text is a TLA+ string, concatenated with \o.    *)
(* A JavaScript value whose type matters is a record [t, s]: its typeof    *)
(* and, for a string, its characters.                                      *)
(***************************************************************************)
EXTENDS Integers, Sequences, FiniteSets, TLC

\* Number of newline-terminated lines of a response body.
MaxLines == 3

-----------------------------------------------------------------------------
(* JavaScript values *)

Undef == [t |-> "undefined", s |-> ""]
Str(s) == [t |-> "string", s |-> s]

\* JavaScript truthiness of a typed value.
Truthy(v) == \/ v.t = "string" /\ v.s # ""
             \/ v.t = "number"
             \/ v.t = "object"
             \/ v.t = "array"
             \/ v.t = "boolean" /\ v.s = "true"

\* a || b
OrElse(a, b) == IF Truthy(a) THEN a ELSE b

IsString(v) == v.t = "string"

\* An optional number: undefined, or a number.
NoNum == [def |-> FALSE, n |-> 0]
Def(n) == [def |-> TRUE, n |-> n]
\* a ?? b
Nullish(a, b) == IF a.def THEN a ELSE b
\* a || 0 on an optional number
OrZero(a) == IF a.def THEN a.n ELSE 0

-----------------------------------------------------------------------------
(* Streaming events (src/unnamed/part_016:14-20).  One record shape for   *)
(* all six variants; a field a variant does not carry keeps its default.  *)
(* `text` is the text of the single text block of a message_stop message. *)

NoTool == [id |-> Undef, name |-> Undef, input |-> Undef]
NoUsage == [promptTokens |-> 0, completionTokens |-> 0, input_tokens |-> NoNum,
            output_tokens |-> NoNum, totalTokens |-> NoNum, reasoningTokens |-> 0]

StreamingEvent(type) ==
  [type |-> type, delta |-> "", responseId |-> "", tool |-> NoTool,
   usage |-> NoUsage, error |-> "", text |-> ""]

MessageStart(rid) == [StreamingEvent("message_start") EXCEPT !.responseId = rid]
TextDelta(d, rid) == [StreamingEvent("text_delta") EXCEPT !.delta = d, !.responseId = rid]
ToolRequest(id, name, input) ==
  [StreamingEvent("tool_request") EXCEPT !.tool = [id |-> id, name |-> name, input |-> input]]
UsageEvent(p, c, total, reasoning) ==
  [StreamingEvent("usage") EXCEPT
     !.usage = [promptTokens |-> p, completionTokens |-> c, input_tokens |-> Def(p),
                output_tokens |-> Def(c), totalTokens |-> Def(total),
                reasoningTokens |-> reasoning]]
ErrorEvent(msg) == [StreamingEvent("error") EXCEPT !.error = msg]
MessageStop(rid, text) ==
  [StreamingEvent("message_stop") EXCEPT !.responseId = rid, !.text = text]

-----------------------------------------------------------------------------
(* The JSON texts a Chat-Completions stream is built from, by the value   *)
(* each parses to.                                                        *)

NoDocUsage == [present |-> FALSE, prompt_tokens |-> NoNum, completion_tokens |-> NoNum,
               total_tokens |-> NoNum]
ChatEmpty ==
  [truthy |-> TRUE, id |-> "", hasDelta |-> FALSE, content |-> "",
   reasoning_content |-> "", tool_calls |-> <<>>, iterable |-> TRUE,
   usage |-> NoDocUsage]

ChatDoc(name) ==
  CASE name = "cA" ->
         \* {"id":"cmpl-1","choices":[{"delta":{"content":"a"}}]}
         [ChatEmpty EXCEPT !.id = "cmpl-1", !.hasDelta = TRUE, !.content = "a"]
    [] name = "cAR" ->
         \* {"choices":[{"delta":{"content":"b","reasoning_content":"r"}}]}
         [ChatEmpty EXCEPT !.hasDelta = TRUE, !.content = "b", !.reasoning_content = "r"]
    [] name = "cT1" ->
         \* first fragment of tool call 0: id, name and the start of the arguments
         [ChatEmpty EXCEPT !.hasDelta = TRUE,
            !.tool_calls = << [index |-> 0, id |-> Str("call_1"), name |-> Str("f"),
                               arguments |-> Str("{\"x\":")] >>]
    [] name = "cT2" ->
         \* later fragment of tool call 0: {"index":0,"function":{"arguments":"1}"}}
         [ChatEmpty EXCEPT !.hasDelta = TRUE,
            !.tool_calls = << [index |-> 0, id |-> Undef, name |-> Undef,
                               arguments |-> Str("1}")] >>]
    [] name = "cT3" ->
         \* a whole tool call, index 1, with the arguments { "x": 1 }, in a chunk
         \* that carries the response id: {"id":"cmpl-1","choices":[{"delta":{...}}]}
         [ChatEmpty EXCEPT !.id = "cmpl-1", !.hasDelta = TRUE,
            !.tool_calls = << [index |-> 1, id |-> Str("call_2"), name |-> Str("g"),
                               arguments |-> Str("{ \"x\": 1 }")] >>]
    [] name = "cU" ->
         \* {"choices":[],"usage":{"prompt_tokens":5,"completion_tokens":2,"total_tokens":9}}
         [ChatEmpty EXCEPT !.usage = [present |-> TRUE, prompt_tokens |-> Def(5),
                                      completion_tokens |-> Def(2), total_tokens |-> Def(9)]]
    [] name = "cU2" ->
         \* {"usage":{"prompt_tokens":3,"completion_tokens":1}}
         [ChatEmpty EXCEPT !.usage = [present |-> TRUE, prompt_tokens |-> Def(3),
                                      completion_tokens |-> Def(1), total_tokens |-> NoNum]]
    [] name = "cBad" ->
         \* {"choices":[{"delta":{"tool_calls":5}}]}: tool_calls is not iterable
         [ChatEmpty EXCEPT !.hasDelta = TRUE, !.iterable = FALSE]
    [] name = "jZero" ->
         \* the JSON text 0: well-formed JSON, a falsy value
         [ChatEmpty EXCEPT !.truthy = FALSE]

ChatDocNames == {"cA", "cAR", "cT1", "cT2", "cT3", "cU", "cU2", "cBad"}

(* The JSON texts a Responses-API stream is built from.                   *)

NoItem == [type |-> "", call_id |-> Undef, id |-> Undef, name |-> Undef,
           arguments |-> Undef]
NoRespUsage == [present |-> FALSE, input_tokens |-> NoNum, output_tokens |-> NoNum,
                total_tokens |-> NoNum, reasoning_tokens |-> NoNum]
RespEmpty ==
  [truthy |-> TRUE, type |-> "", respId |-> "", delta |-> "", item |-> NoItem,
   usage |-> NoRespUsage]
FunctionCall(callId, id, name, args) ==
  [type |-> "function_call", call_id |-> callId, id |-> id, name |-> name,
   arguments |-> args]

RespDoc(name) ==
  CASE name = "rHi" ->
         \* {"type":"response.output_text.delta","delta":"Hi"}
         [RespEmpty EXCEPT !.type = "response.output_text.delta", !.delta = "Hi"]
    [] name = "rCreated" ->
         \* {"type":"response.created","response":{"id":"resp_1"}}
         [RespEmpty EXCEPT !.type = "response.created", !.respId = "resp_1"]
    [] name = "rDone" ->
         \* {"type":"response.completed","usage":{"input_tokens":5,"output_tokens":2}}
         [RespEmpty EXCEPT !.type = "response.completed",
            !.usage = [present |-> TRUE, input_tokens |-> Def(5), output_tokens |-> Def(2),
                       total_tokens |-> NoNum, reasoning_tokens |-> NoNum]]
    [] name = "rDone2" ->
         \* {"type":"response.completed","usage":{"input_tokens":12,"output_tokens":8,
         \*   "total_tokens":20,"output_tokens_details":{"reasoning_tokens":3}}}
         [RespEmpty EXCEPT !.type = "response.completed",
            !.usage = [present |-> TRUE, input_tokens |-> Def(12), output_tokens |-> Def(8),
                       total_tokens |-> Def(20), reasoning_tokens |-> Def(3)]]
    [] name = "rFn" ->
         \* output_item.done, a complete function_call item
         [RespEmpty EXCEPT !.type = "response.output_item.done",
            !.item = FunctionCall(Str("c1"), Str("fc_1"), Str("f"), Str("{}"))]
    [] name = "rFnNoName" ->
         \* output_item.done, a function_call item without a name
         [RespEmpty EXCEPT !.type = "response.output_item.done",
            !.item = FunctionCall(Str("c2"), Undef, Undef, Str("{}"))]
    [] name = "rFnObjArgs" ->
         \* output_item.done, a function_call item whose arguments are an object
         [RespEmpty EXCEPT !.type = "response.output_item.done",
            !.item = FunctionCall(Str("c3"), Undef, Str("g"), [t |-> "object", s |-> ""])]
    [] name = "rFnAdded" ->
         \* output_item.added (not done) carrying a function_call item
         [RespEmpty EXCEPT !.type = "response.output_item.added",
            !.item = FunctionCall(Str("c1"), Str("fc_1"), Str("f"), Str(""))]
    [] name = "rMsgItem" ->
         \* output_item.done, a message item
         [RespEmpty EXCEPT !.type = "response.output_item.done",
            !.item = [NoItem EXCEPT !.type = "message", !.id = Str("msg_1")]]
    [] name = "jZero" ->
         [RespEmpty EXCEPT !.truthy = FALSE]

RespDocNames == {"rHi", "rCreated", "rDone", "rDone2", "rFn", "rFnNoName",
                 "rFnObjArgs", "rFnAdded", "rMsgItem"}

-----------------------------------------------------------------------------
(* Server-Sent-Events decoding *)

\* The JSON texts: every atom that is one complete JSON text.
JsonTexts == ChatDocNames \cup RespDocNames \cup {"jZero"}

RECURSIVE TrimStart(_)
TrimStart(s) == IF s # <<>> /\ Head(s) = "SP" THEN TrimStart(Tail(s)) ELSE s
RECURSIVE TrimEnd(_)
TrimEnd(s) ==
  IF s # <<>> /\ s[Len(s)] = "SP" THEN TrimEnd(SubSeq(s, 1, Len(s) - 1)) ELSE s
\* String.prototype.trim
Trim(s) == TrimEnd(TrimStart(s))

\* String.prototype.split('\n'): the segments between newlines, at least one.
RECURSIVE Split(_)
Split(s) ==
  IF \E i \in 1..Len(s) : s[i] = "NL"
    THEN LET i == CHOOSE j \in 1..Len(s) :
                    s[j] = "NL" /\ \A k \in 1..(j - 1) : s[k] # "NL"
         IN <<SubSeq(s, 1, i - 1)>> \o Split(SubSeq(s, i + 1, Len(s)))
    ELSE <<s>>

\* What parseSSEChunk returns: null, or the parsed JSON value (by its name).
Null == [null |-> TRUE, doc |-> ""]
Parsed(doc) == [null |-> FALSE, doc |-> doc]

\* JSON.parse inside the try of parseSSEChunk: the value of a text that is exactly
\* one JSON text, null (the catch) for anything else.
JSONParse(data) ==
  IF Len(data) = 1 /\ data[1] \in JsonTexts THEN Parsed(data[1]) ELSE Null

parseSSEChunk(line) ==
  IF line # <<>> /\ Head(line) = "D"
    THEN LET data == Trim(Tail(line)) IN
           IF data = <<"DONE">> THEN Null
           ELSE IF data # <<>> THEN JSONParse(data)
           ELSE Null
    ELSE Null

-----------------------------------------------------------------------------
(* State *)

VARIABLES
  adapter,             \* which parser reads the body
  body,                \* the atoms the body's reader will deliver, in order
  response_id,         \* response.id ("" when the response has none)
  pos,                 \* how many atoms reader.read() has delivered
  pc,                  \* the parser: "start", "reading", "done" or "raised"
  buffer,              \* the held-back partial line
  responseId,          \* local responseId
  hasStarted,          \* local hasStarted
  accumulatedContent,  \* local accumulatedContent (fullContent on the buffered path)
  events,              \* every event yielded so far, in order
  toolCalls,           \* the buffered Responses-API path's toolCalls list
  handed,              \* history: the parsed values that passed `if (parsed)`
  failure,             \* history: the read failure, if any, and the events before it
  rpc,                 \* the reducer: "draining", "returned" or "raised"
  assistantMessage,    \* what the reducer returns
  unified,             \* what parseResponse returns
  version,             \* which revision of ResponsesAPIAdapter builds the request
  capabilities,        \* this.capabilities
  modelProfile,        \* this.modelProfile
  params,              \* history: the argument of createRequest
  request,             \* what createRequest returned
  qpc,                 \* createRequest: "idle", "ready" or "built"
  invocations,         \* the locals of each of two concurrent parseStreamingResponse calls
  locked,              \* whether a reader holds the lock of response.body
  cancelledAt,         \* history: the number of events at cancellation, -1 before it
  inputs,              \* the params the caller may pass to createRequest
  requestsLeft,        \* the number of createRequest calls the caller has yet to make
  built,               \* history: the params and the payload of every createRequest call
  response,            \* the buffered response handed to parseResponse
  ppc,                 \* parseResponse on a buffered response: "idle", "ready", "returned";
                       \* processStreamingChunk on one chunk: "chunk", "yielded"
  parsedChunk,         \* the parsed chunk object handed to processStreamingChunk
  isProcessing,        \* WebREPL.isProcessing
  abortController,     \* WebREPL.abortController: 0 for null, else the controller's number
  pendingApprovals,    \* WebREPL.pendingApprovals: the tool call ids with an entry (and a timer)
  userInputs,          \* the processUserInput calls that passed the guard, in order
  rejected,            \* the number of user_input messages answered with the error
  aborted,             \* the controllers on which abort() was called
  closed,              \* whether cleanup() has run
  bridgeAbortController, \* WebSocketBridge.abortController: 0 for null
  bridgeInputs,        \* the handleUserInput calls of the bridge, in order
  bridgeAborted,       \* the bridge's controllers on which abort() was called
  isReconnecting,      \* wrappedClient.isReconnecting
  reconnectAttempts,   \* wrappedClient.reconnectAttempts
  keepaliveTimer,      \* whether wrappedClient.keepaliveTimer is set
  keepaliveCheck,      \* whether a keepalive getServerCapabilities() is awaited
  reconnects,          \* the attemptReconnect calls past the guard: "waiting" or "connecting"
  delays,              \* history: the backoff delays of the current episode, in ms
  outcome,             \* history: how the last attempt ended
  skipped              \* history: the attemptReconnect calls that returned at the guard

streamVars == <<adapter, body, response_id, pos, pc, buffer, responseId, hasStarted,
                accumulatedContent, events, toolCalls, handed, failure>>
reducerVars == <<rpc, assistantMessage, unified>>
requestVars == <<version, capabilities, modelProfile, inputs, requestsLeft, params,
                 request, built, qpc>>
callVars == <<invocations>>
cancelVars == <<locked, cancelledAt>>
parseVars == <<response, ppc, parsedChunk>>
replVars == <<isProcessing, abortController, pendingApprovals, userInputs, rejected,
              aborted, closed>>
bridgeVars == <<bridgeAbortController, bridgeInputs, bridgeAborted>>
mcpVars == <<isReconnecting, reconnectAttempts, keepaliveTimer, keepaliveCheck,
             reconnects, delays, outcome, skipped>>
webVars == <<replVars, bridgeVars, mcpVars>>
vars == <<streamVars, reducerVars, requestVars, callVars, cancelVars, parseVars, webVars>>

\* No WebREPL is in use.
ReplIdle ==
  /\ isProcessing = FALSE /\ abortController = 0 /\ pendingApprovals = {}
  /\ userInputs = <<>> /\ rejected = 0 /\ aborted = {} /\ closed = FALSE
\* No WebSocketBridge is in use.
BridgeIdle == bridgeAbortController = 0 /\ bridgeInputs = <<>> /\ bridgeAborted = {}
\* No MCP client is connected.
McpIdle ==
  /\ isReconnecting = FALSE /\ reconnectAttempts = 0 /\ keepaliveTimer = FALSE
  /\ keepaliveCheck = FALSE /\ reconnects = <<>> /\ delays = <<>> /\ outcome = "none"
  /\ skipped = 0
WebIdle == ReplIdle /\ BridgeIdle /\ McpIdle

NoFailure == [failed |-> FALSE, msg |-> "", before |-> <<>>, text |-> ""]

\* `chatcmpl_${Date.now()}` and `resp_${Date.now()}`
FallbackId(a) == IF a = "chat" THEN "chatcmpl_now" ELSE "resp_now"

\* The chunk-processing locals, threaded through the lines of one chunk.
Locals == [responseId |-> responseId, hasStarted |-> hasStarted,
           acc |-> accumulatedContent, out |-> <<>>, handed |-> <<>>,
           toolCalls |-> <<>>, thrown |-> FALSE, msg |-> ""]

-----------------------------------------------------------------------------
(* Chat-Completions: parseStreamingResponse *)

\* Mutant of CC_fullDelta: the reasoning text is left out.
CC_fullDelta_contentOnly(d) == IF d.hasDelta THEN d.content ELSE ""

\* Lines 148-151: the text of one chunk object, content then reasoning.
CC_fullDelta(d) == IF d.hasDelta THEN d.content \o d.reasoning_content ELSE ""

\* Mutant of CC_textEvents: the hasStarted test is missing.
CC_textEvents_restart(fullDelta, rid, started) ==
  IF fullDelta # "" THEN <<MessageStart(rid), TextDelta(fullDelta, rid)>> ELSE <<>>

\* Lines 153-175: message_start before the first text, then the text_delta.
CC_textEvents(fullDelta, rid, started) ==
  IF fullDelta # ""
    THEN (IF ~started THEN <<MessageStart(rid)>> ELSE <<>>) \o <<TextDelta(fullDelta, rid)>>
    ELSE <<>>

\* Lines 179-190: one tool_request per entry of delta.tool_calls.
CC_toolEvents(d) ==
  IF d.hasDelta /\ d.iterable
    THEN [i \in 1..Len(d.tool_calls) |->
            ToolRequest(d.tool_calls[i].id, d.tool_calls[i].name,
                        OrElse(d.tool_calls[i].arguments, Str("{}")))]
    ELSE <<>>

\* Lines 193-209.
CC_usageEvents(d) ==
  LET promptTokens == OrZero(d.usage.prompt_tokens)
      completionTokens == OrZero(d.usage.completion_tokens)
      totalTokens == Nullish(d.usage.total_tokens, Def(promptTokens + completionTokens)).n
  IN IF d.usage.present
       THEN <<UsageEvent(promptTokens, completionTokens, totalTokens, 0)>>
       ELSE <<>>

\* Lines 141-209: one parsed chunk object d.  The for-of of line 180 throws when
\* delta.tool_calls is not iterable, after the text events and before the usage.
CC_handleParsed(st, d) ==
  LET rid == IF d.id # "" THEN d.id ELSE st.responseId
      fullDelta == CC_fullDelta(d)
      throws == d.hasDelta /\ ~d.iterable
  IN [st EXCEPT !.responseId = rid,
                !.hasStarted = st.hasStarted \/ fullDelta # "",
                !.acc = st.acc \o fullDelta,
                !.out = st.out \o CC_textEvents(fullDelta, rid, st.hasStarted)
                               \o CC_toolEvents(d)
                               \o (IF throws THEN <<>> ELSE CC_usageEvents(d)),
                !.thrown = throws,
                !.msg = IF throws THEN "choice.delta.tool_calls is not iterable" ELSE ""]

\* Mutant of CC_processLine: JSON.parse is not guarded, so a malformed line
\* throws out of the read loop.
CC_processLine_unguarded(st, line) ==
  IF st.thrown THEN st
  ELSE IF Trim(line) = <<>> THEN st
  ELSE LET parsed == parseSSEChunk(line) IN
         IF Head(line) = "D" /\ Trim(Tail(line)) \notin {<<>>, <<"DONE">>} /\ parsed.null
           THEN [st EXCEPT !.thrown = TRUE, !.msg = "Unexpected token"]
         ELSE IF parsed.null \/ ~ChatDoc(parsed.doc).truthy THEN st
         ELSE CC_handleParsed([st EXCEPT !.handed = Append(@, parsed.doc)],
                              ChatDoc(parsed.doc))

\* Lines 137-140: one line of the chunk.
CC_processLine(st, line) ==
  IF st.thrown THEN st
  ELSE IF Trim(line) = <<>> THEN st
  ELSE LET parsed == parseSSEChunk(line) IN
         IF parsed.null \/ ~ChatDoc(parsed.doc).truthy THEN st
         ELSE CC_handleParsed([st EXCEPT !.handed = Append(@, parsed.doc)],
                              ChatDoc(parsed.doc))

RECURSIVE CC_processLines(_, _)
CC_processLines(st, lines) ==
  IF lines = <<>> THEN st
  ELSE CC_processLines(CC_processLine(st, Head(lines)), Tail(lines))

\* Mutant of CC_messageStop: the closing message is built without the text.
CC_messageStop_empty(rid, acc) == MessageStop(rid, "")

\* Lines 224-238: the closing message.
CC_messageStop(rid, acc) == MessageStop(rid, IF acc # "" THEN acc ELSE "")

\* Line 120: getReader() on a locked body throws before the generator's try.
CC_GetReaderThrows ==
  /\ adapter = "chat" /\ pc = "start"
  /\ pc' = "raised"
  /\ UNCHANGED <<adapter, body, response_id, pos, buffer, responseId, hasStarted,
                 accumulatedContent, events, toolCalls, handed, failure, reducerVars, requestVars, parseVars, webVars, callVars, cancelVars>>

\* Lines 120-126.
CC_Start ==
  /\ adapter = "chat" /\ pc = "start"
  /\ pc' = "reading"
  /\ buffer' = <<>>
  /\ responseId' = IF response_id # "" THEN response_id ELSE FallbackId("chat")
  /\ hasStarted' = FALSE
  /\ accumulatedContent' = ""
  /\ UNCHANGED <<adapter, body, response_id, pos, events, toolCalls, handed, failure,
                 reducerVars, requestVars, parseVars, webVars, callVars, cancelledAt>>
  /\ locked' = TRUE

\* A read loop that holds no incomplete line back: whatever follows the last
\* newline of a chunk is parsed with the chunk.
CC_ReadChunk_noHoldBack ==
  /\ adapter = "chat" /\ pc = "reading"
  /\ \E k \in 1..(Len(body) - pos) :
       LET text == buffer \o SubSeq(body, pos + 1, pos + k)
           lines == Split(text)
           st == CC_processLines(Locals, lines)
       IN /\ pos' = pos + k
          /\ buffer' = <<>>
          /\ responseId' = st.responseId
          /\ hasStarted' = st.hasStarted
          /\ accumulatedContent' = st.acc
          /\ handed' = handed \o st.handed
          /\ IF st.thrown
               THEN /\ events' = events \o st.out \o
                                 <<ErrorEvent(st.msg), CC_messageStop(st.responseId, st.acc)>>
                    /\ pc' = "done"
                    /\ locked' = FALSE
               ELSE /\ events' = events \o st.out
                    /\ pc' = "reading"
                    /\ locked' = locked
  /\ UNCHANGED <<adapter, body, response_id, toolCalls, failure, reducerVars, requestVars, parseVars, webVars, callVars, cancelledAt>>

\* Lines 129-212: reader.read() delivers the next k atoms; the chunk's complete
\* lines are processed.  A throw inside the try goes to the catch and the
\* closing message (lines 214-238).
CC_ReadChunk ==
  /\ adapter = "chat" /\ pc = "reading"
  /\ \E k \in 1..(Len(body) - pos) :
       LET text == buffer \o SubSeq(body, pos + 1, pos + k)
           lines == Split(text)
           st == CC_processLines(Locals, SubSeq(lines, 1, Len(lines) - 1))
       IN /\ pos' = pos + k
          /\ buffer' = lines[Len(lines)]
          /\ responseId' = st.responseId
          /\ hasStarted' = st.hasStarted
          /\ accumulatedContent' = st.acc
          /\ handed' = handed \o st.handed
          /\ IF st.thrown
               THEN /\ events' = events \o st.out \o
                                 <<ErrorEvent(st.msg), CC_messageStop(st.responseId, st.acc)>>
                    /\ pc' = "done"
                    /\ locked' = FALSE
               ELSE /\ events' = events \o st.out
                    /\ pc' = "reading"
                    /\ locked' = locked
  /\ UNCHANGED <<adapter, body, response_id, toolCalls, failure, reducerVars, requestVars, parseVars, webVars, callVars, cancelledAt>>

\* Mutant of CC_ReadDone: the generator returns from the loop without the
\* closing message.
CC_ReadDone_silent ==
  /\ adapter = "chat" /\ pc = "reading"
  /\ pos = Len(body)
  /\ pc' = "done"
  /\ UNCHANGED <<adapter, body, response_id, pos, buffer, responseId, hasStarted, events,
                 accumulatedContent, toolCalls, handed, failure, reducerVars, requestVars, parseVars, webVars, callVars, cancelledAt>>
  /\ locked' = FALSE

\* Lines 130-131 and 220-238: the reader reports done.
CC_ReadDone ==
  /\ adapter = "chat" /\ pc = "reading"
  /\ pos = Len(body)
  /\ events' = Append(events, CC_messageStop(responseId, accumulatedContent))
  /\ pc' = "done"
  /\ UNCHANGED <<adapter, body, response_id, pos, buffer, responseId, hasStarted,
                 accumulatedContent, toolCalls, handed, failure, reducerVars, requestVars, parseVars, webVars, callVars, cancelledAt>>
  /\ locked' = FALSE

\* The values a rejected read can carry: an Error, or something else.
ReadErrors == {[isError |-> TRUE, message |-> "socket hang up"]}

\* Mutant of CC_ReadReject: the catch returns after the error event.
CC_ReadReject_return ==
  /\ adapter = "chat" /\ pc = "reading"
  /\ \E e \in ReadErrors :
       /\ events' = Append(events, ErrorEvent(e.message))
       /\ failure' = [failed |-> TRUE, msg |-> e.message, before |-> events,
                      text |-> accumulatedContent]
  /\ pc' = "done"
  /\ UNCHANGED <<adapter, body, response_id, pos, buffer, responseId, hasStarted,
                 accumulatedContent, toolCalls, handed, reducerVars, requestVars, parseVars, webVars, callVars, cancelledAt>>
  /\ locked' = FALSE

\* Lines 130 and 214-238: reader.read() rejects.
CC_ReadReject ==
  /\ adapter = "chat" /\ pc = "reading"
  /\ \E e \in ReadErrors :
       /\ events' = events \o <<ErrorEvent(e.message),
                                CC_messageStop(responseId, accumulatedContent)>>
       /\ failure' = [failed |-> TRUE, msg |-> e.message, before |-> events,
                      text |-> accumulatedContent]
  /\ pc' = "done"
  /\ UNCHANGED <<adapter, body, response_id, pos, buffer, responseId, hasStarted,
                 accumulatedContent, toolCalls, handed, reducerVars, requestVars, parseVars, webVars, callVars, cancelledAt>>
  /\ locked' = FALSE

\* The transport is aborted while the generator awaits reader.read(): the read
\* rejects with an AbortError, which the catch of lines 214-219 handles like any
\* other failure; the finally releases the reader.
CC_Cancel ==
  /\ adapter = "chat" /\ pc = "reading" /\ cancelledAt = -1
  /\ events' = events \o <<ErrorEvent("This operation was aborted"),
                           CC_messageStop(responseId, accumulatedContent)>>
  /\ failure' = [failed |-> TRUE, msg |-> "This operation was aborted",
                 before |-> events, text |-> accumulatedContent]
  /\ cancelledAt' = Len(events)
  /\ locked' = FALSE
  /\ pc' = "done"
  /\ UNCHANGED <<adapter, body, response_id, pos, buffer, responseId, hasStarted,
                 accumulatedContent, toolCalls, handed, reducerVars, requestVars, parseVars, webVars,
                 callVars>>

-----------------------------------------------------------------------------
(* Chat-Completions: parseStreamingChatCompletion (the reducer) and the    *)
(* streamed path of parseResponse                                          *)

TextBlock(text) == [type |-> "text", text |-> text, id |-> Undef, name |-> Undef,
                    input |-> ""]
ToolUseBlock(id, name, input) ==
  [type |-> "tool_use", text |-> "", id |-> id, name |-> name, input |-> input]

\* The argument texts that are JSON, with the text JSON.stringify gives back for
\* the value each parses to.
ArgsJson == [t \in {"{}", "{\"x\":1}", "{ \"x\": 1 }"} |->
               IF t = "{}" THEN "{}" ELSE "{\"x\":1}"]

\* Mutant of R_toolArgs: an argument text that does not parse is kept as it is.
R_toolArgs_raw(input) ==
  IF Truthy(input) /\ IsString(input)
    THEN (IF input.s \in DOMAIN ArgsJson THEN ArgsJson[input.s] ELSE input.s)
    ELSE "{}"

\* Lines 285-288: toolCall.input ? JSON.parse(toolCall.input) : {}, {} on a throw.
\* The value is named by its JSON.stringify text.
R_toolArgs(input) ==
  IF Truthy(input) /\ IsString(input) /\ input.s \in DOMAIN ArgsJson
    THEN ArgsJson[input.s]
    ELSE "{}"

\* The reducer's locals (lines 242-249).
R_init(rid) ==
  [contentBlocks |-> <<>>,
   usage |-> [prompt_tokens |-> Def(0), completion_tokens |-> Def(0), totalTokens |-> NoNum],
   responseId |-> rid,
   pendingToolCalls |-> <<>>]

\* Mutant of R_usage: the counts of the events are added up.
R_usage_sum(u, eu) ==
  LET p == Def(OrZero(u.prompt_tokens) + OrZero(eu.input_tokens))
      c == Def(OrZero(u.completion_tokens) + OrZero(eu.output_tokens))
  IN [prompt_tokens |-> p, completion_tokens |-> c,
      totalTokens |-> Def(OrZero(u.totalTokens) + OrZero(eu.totalTokens))]

\* Lines 273-279: the reducer's usage after a usage event.
R_usage(u, eu) ==
  LET p == Nullish(eu.input_tokens, Nullish(Def(eu.promptTokens), u.prompt_tokens))
      c == Nullish(eu.output_tokens, Nullish(Def(eu.completionTokens), u.completion_tokens))
  IN [prompt_tokens |-> p, completion_tokens |-> c,
      totalTokens |-> Nullish(eu.totalTokens, Def(OrZero(p) + OrZero(c)))]

\* Mutant of R_step: every text_delta starts a text block.
R_step_push(r, e) ==
  CASE e.type = "message_start" ->
         [r EXCEPT !.responseId = IF e.responseId # "" THEN e.responseId ELSE @]
    [] e.type = "text_delta" ->
         [r EXCEPT !.contentBlocks = Append(@, TextBlock(e.delta))]
    [] e.type = "tool_request" ->
         [r EXCEPT !.pendingToolCalls = Append(@, e.tool)]
    [] e.type = "usage" ->
         [r EXCEPT !.usage = R_usage(@, e.usage)]
    [] OTHER -> r

\* Lines 252-281: one event.
R_step(r, e) ==
  CASE e.type = "message_start" ->
         [r EXCEPT !.responseId = IF e.responseId # "" THEN e.responseId ELSE @]
    [] e.type = "text_delta" ->
         [r EXCEPT !.contentBlocks =
            IF @ = <<>> \/ @[Len(@)].type # "text"
              THEN Append(@, TextBlock(e.delta))
              ELSE [@ EXCEPT ![Len(@)].text = @ \o e.delta]]
    [] e.type = "tool_request" ->
         [r EXCEPT !.pendingToolCalls = Append(@, e.tool)]
    [] e.type = "usage" ->
         [r EXCEPT !.usage = R_usage(@, e.usage)]
    [] OTHER -> r

\* Lines 251-282: the for-await over the event sequence.
RECURSIVE R_drain(_, _)
R_drain(r, evs) == IF evs = <<>> THEN r ELSE R_drain(R_step(r, Head(evs)), Tail(evs))

\* Lines 347-379.
normalizeUsageForAdapter(u) ==
  LET inputTokens == Nullish(u.input_tokens, Nullish(u.prompt_tokens,
                       Nullish(u.promptTokens, Def(0)))).n
      outputTokens == Nullish(u.output_tokens, Nullish(u.completion_tokens,
                        Nullish(u.completionTokens, Def(0)))).n
  IN [u EXCEPT !.input_tokens = Def(inputTokens),
               !.output_tokens = Def(outputTokens),
               !.promptTokens = Def(inputTokens),
               !.completionTokens = Def(outputTokens),
               !.totalTokens = Def(Nullish(u.totalTokens, Def(inputTokens + outputTokens)).n),
               !.reasoningTokens = Def(Nullish(u.reasoningTokens, Def(0)).n)]

\* Mutant of R_toolBlocks: only the first pending tool call becomes a block.
R_toolBlocks_first(pending) ==
  [i \in 1..(IF pending = <<>> THEN 0 ELSE 1) |->
     ToolUseBlock(pending[i].id, pending[i].name, R_toolArgs(pending[i].input))]

\* Lines 284-296: the tool-use blocks of the pending tool calls.
R_toolBlocks(pending) ==
  [i \in 1..Len(pending) |->
     ToolUseBlock(pending[i].id, pending[i].name, R_toolArgs(pending[i].input))]

\* Lines 298-317: the message the reducer returns.
R_message(blocks, u, rid) ==
  [content |-> blocks,
   usage |-> [input_tokens |-> Def(Nullish(u.prompt_tokens, Def(0)).n),
              output_tokens |-> Def(Nullish(u.completion_tokens, Def(0)).n),
              prompt_tokens |-> Def(Nullish(u.prompt_tokens, Def(0)).n),
              completion_tokens |-> Def(Nullish(u.completion_tokens, Def(0)).n),
              totalTokens |-> Def(Nullish(u.totalTokens,
                                Def(OrZero(u.prompt_tokens) + OrZero(u.completion_tokens))).n),
              promptTokens |-> NoNum, completionTokens |-> NoNum,
              reasoningTokens |-> NoNum],
   responseId |-> rid]

RECURSIVE SelectToolUse(_)
SelectToolUse(blocks) ==
  IF blocks = <<>> THEN <<>>
  ELSE (IF Head(blocks).type = "tool_use"
          THEN << [id |-> Head(blocks).id, type |-> "function",
                   name |-> Head(blocks).name, arguments |-> Head(blocks).input] >>
          ELSE <<>>) \o SelectToolUse(Tail(blocks))

\* Lines 73-88: the UnifiedResponse of the streamed path.
CC_unified(m) ==
  [id |-> m.responseId, content |-> m.content, toolCalls |-> SelectToolUse(m.content),
   usage |-> normalizeUsageForAdapter(m.usage), responseId |-> m.responseId]

NoMessage == [content |-> <<>>, usage |-> <<>>, responseId |-> ""]
NoUnified == [id |-> "", content |-> <<>>, toolCalls |-> <<>>, usage |-> <<>>,
              responseId |-> ""]

\* Lines 241-326 and 71-88: parseResponse on a streamed response.  The reducer
\* drains the event sequence, which has ended, and returns; parseResponse returns.
R_Finish ==
  /\ adapter = "chat" /\ rpc = "draining" /\ pc = "done"
  /\ LET r == R_drain(R_init(IF response_id # "" THEN response_id ELSE FallbackId("chat")),
                      events)
         blocks == r.contentBlocks \o R_toolBlocks(r.pendingToolCalls)
         m == R_message(blocks, r.usage, r.responseId)
     IN /\ assistantMessage' = m
        /\ unified' = CC_unified(m)
  /\ rpc' = "returned"
  /\ UNCHANGED <<streamVars, requestVars, parseVars, webVars, callVars, cancelVars>>

\* Line 251: the event sequence raises; nothing catches it, so
\* parseStreamingChatCompletion and parseResponse reject.
R_Propagate ==
  /\ adapter = "chat" /\ rpc = "draining" /\ pc = "raised"
  /\ rpc' = "raised"
  /\ UNCHANGED <<streamVars, assistantMessage, unified, requestVars, parseVars, webVars, callVars, cancelVars>>

-----------------------------------------------------------------------------
(* Responses-API: the streaming event producer (src/unnamed/part_017)      *)

\* handleTextDelta of the OpenAIAdapter base class: message_start before the
\* first text, then the text_delta.
handleTextDelta(delta, rid, started) ==
  (IF started THEN <<>> ELSE <<MessageStart(rid)>>) \o <<TextDelta(delta, rid)>>

\* A processStreamingChunk that always adds the total up itself.
processStreamingChunk_sumTotal(parsed, rid, started, acc) ==
  LET delta == parsed.delta
      textEv == IF parsed.type = "response.output_text.delta" /\ delta # ""
                  THEN handleTextDelta(delta, rid, started)
                  ELSE <<>>
      item == parsed.item
      callId == OrElse(item.call_id, item.id)
      toolEv == IF /\ parsed.type = "response.output_item.done"
                   /\ item.type = "function_call"
                   /\ IsString(callId) /\ IsString(item.name) /\ IsString(item.arguments)
                  THEN <<ToolRequest(callId, item.name, item.arguments)>>
                  ELSE <<>>
      promptTokens == OrZero(parsed.usage.input_tokens)
      completionTokens == OrZero(parsed.usage.output_tokens)
      totalTokens == promptTokens + completionTokens
      usageEv == IF parsed.usage.present
                   THEN <<UsageEvent(promptTokens, completionTokens, totalTokens,
                                     OrZero(parsed.usage.reasoning_tokens))>>
                   ELSE <<>>
  IN textEv \o toolEv \o usageEv

\* A processStreamingChunk that reports usage for every event, carried or not.
processStreamingChunk_usageAlways(parsed, rid, started, acc) ==
  LET delta == parsed.delta
      textEv == IF parsed.type = "response.output_text.delta" /\ delta # ""
                  THEN handleTextDelta(delta, rid, started)
                  ELSE <<>>
      item == parsed.item
      callId == OrElse(item.call_id, item.id)
      toolEv == IF /\ parsed.type = "response.output_item.done"
                   /\ item.type = "function_call"
                   /\ IsString(callId) /\ IsString(item.name) /\ IsString(item.arguments)
                  THEN <<ToolRequest(callId, item.name, item.arguments)>>
                  ELSE <<>>
      promptTokens == OrZero(parsed.usage.input_tokens)
      completionTokens == OrZero(parsed.usage.output_tokens)
      totalTokens == Nullish(parsed.usage.total_tokens,
                             Def(promptTokens + completionTokens)).n
      usageEv == IF TRUE
                   THEN <<UsageEvent(promptTokens, completionTokens, totalTokens,
                                     OrZero(parsed.usage.reasoning_tokens))>>
                   ELSE <<>>
  IN textEv \o toolEv \o usageEv

\* Mutant of processStreamingChunk: the usage counts are read from the
\* Chat-Completions keys prompt_tokens and completion_tokens, which a
\* Responses-API usage object lacks.
processStreamingChunk_chatKeys(parsed, rid, started, acc) ==
  LET delta == parsed.delta
      textEv == IF parsed.type = "response.output_text.delta" /\ delta # ""
                  THEN handleTextDelta(delta, rid, started)
                  ELSE <<>>
      item == parsed.item
      callId == OrElse(item.call_id, item.id)
      toolEv == IF /\ parsed.type = "response.output_item.done"
                   /\ item.type = "function_call"
                   /\ IsString(callId) /\ IsString(item.name) /\ IsString(item.arguments)
                  THEN <<ToolRequest(callId, item.name, item.arguments)>>
                  ELSE <<>>
      promptTokens == OrZero(NoNum)
      completionTokens == OrZero(NoNum)
      totalTokens == Nullish(parsed.usage.total_tokens,
                             Def(promptTokens + completionTokens)).n
      usageEv == IF parsed.usage.present
                   THEN <<UsageEvent(promptTokens, completionTokens, totalTokens,
                                     OrZero(parsed.usage.reasoning_tokens))>>
                   ELSE <<>>
  IN textEv \o toolEv \o usageEv

\* part_017:183-239.
processStreamingChunk(parsed, rid, started, acc) ==
  LET delta == parsed.delta
      textEv == IF parsed.type = "response.output_text.delta" /\ delta # ""
                  THEN handleTextDelta(delta, rid, started)
                  ELSE <<>>
      item == parsed.item
      callId == OrElse(item.call_id, item.id)
      toolEv == IF /\ parsed.type = "response.output_item.done"
                   /\ item.type = "function_call"
                   /\ IsString(callId) /\ IsString(item.name) /\ IsString(item.arguments)
                  THEN <<ToolRequest(callId, item.name, item.arguments)>>
                  ELSE <<>>
      promptTokens == OrZero(parsed.usage.input_tokens)
      completionTokens == OrZero(parsed.usage.output_tokens)
      totalTokens == Nullish(parsed.usage.total_tokens,
                             Def(promptTokens + completionTokens)).n
      usageEv == IF parsed.usage.present
                   THEN <<UsageEvent(promptTokens, completionTokens, totalTokens,
                                     OrZero(parsed.usage.reasoning_tokens))>>
                   ELSE <<>>
  IN textEv \o toolEv \o usageEv

\* part_017:241-254.
updateStreamingState(parsed, acc) ==
  IF parsed.type = "response.output_text.delta" /\ parsed.delta # ""
    THEN [hasContent |-> TRUE, content |-> acc \o parsed.delta, hasStarted |-> TRUE]
    ELSE [hasContent |-> FALSE, content |-> "", hasStarted |-> FALSE]

\* The read loop of the OpenAIAdapter base class, for one parsed value.
OA_handleParsed(st, d) ==
  LET rid == IF d.respId # "" THEN d.respId ELSE st.responseId
      out == processStreamingChunk(d, rid, st.hasStarted, st.acc)
      upd == updateStreamingState(d, st.acc)
  IN [st EXCEPT !.responseId = rid,
                !.out = st.out \o out,
                !.acc = IF upd.hasContent THEN upd.content ELSE st.acc,
                !.hasStarted = st.hasStarted \/ upd.hasStarted]

OA_processLine(st, line) ==
  IF Trim(line) = <<>> THEN st
  ELSE LET parsed == parseSSEChunk(line) IN
         IF parsed.null \/ ~RespDoc(parsed.doc).truthy THEN st
         ELSE OA_handleParsed([st EXCEPT !.handed = Append(@, parsed.doc)],
                              RespDoc(parsed.doc))

RECURSIVE OA_processLines(_, _)
OA_processLines(st, lines) ==
  IF lines = <<>> THEN st
  ELSE OA_processLines(OA_processLine(st, Head(lines)), Tail(lines))

OA_Start ==
  /\ adapter = "responses" /\ pc = "start"
  /\ pc' = "reading"
  /\ buffer' = <<>>
  /\ responseId' = IF response_id # "" THEN response_id ELSE FallbackId("responses")
  /\ hasStarted' = FALSE
  /\ accumulatedContent' = ""
  /\ UNCHANGED <<adapter, body, response_id, pos, events, toolCalls, handed, failure,
                 reducerVars, requestVars, parseVars, webVars, callVars, cancelledAt>>
  /\ locked' = TRUE

OA_ReadChunk ==
  /\ adapter = "responses" /\ pc = "reading"
  /\ \E k \in 1..(Len(body) - pos) :
       LET text == buffer \o SubSeq(body, pos + 1, pos + k)
           lines == Split(text)
           st == OA_processLines(Locals, SubSeq(lines, 1, Len(lines) - 1))
       IN /\ pos' = pos + k
          /\ buffer' = lines[Len(lines)]
          /\ responseId' = st.responseId
          /\ hasStarted' = st.hasStarted
          /\ accumulatedContent' = st.acc
          /\ handed' = handed \o st.handed
          /\ events' = events \o st.out
  /\ UNCHANGED <<adapter, body, response_id, pc, toolCalls, failure, reducerVars, requestVars, parseVars, webVars, callVars, cancelVars>>

OA_ReadDone ==
  /\ adapter = "responses" /\ pc = "reading"
  /\ pos = Len(body)
  /\ events' = Append(events, MessageStop(responseId, accumulatedContent))
  /\ pc' = "done"
  /\ UNCHANGED <<adapter, body, response_id, pos, buffer, responseId, hasStarted,
                 accumulatedContent, toolCalls, handed, failure, reducerVars, requestVars, parseVars, webVars, callVars, cancelledAt>>
  /\ locked' = FALSE

OA_ReadReject ==
  /\ adapter = "responses" /\ pc = "reading"
  /\ \E e \in ReadErrors :
       /\ events' = events \o <<ErrorEvent(e.message),
                                MessageStop(responseId, accumulatedContent)>>
       /\ failure' = [failed |-> TRUE, msg |-> e.message, before |-> events,
                      text |-> accumulatedContent]
  /\ pc' = "done"
  /\ UNCHANGED <<adapter, body, response_id, pos, buffer, responseId, hasStarted,
                 accumulatedContent, toolCalls, handed, reducerVars, requestVars, parseVars, webVars, callVars, cancelledAt>>
  /\ locked' = FALSE

-----------------------------------------------------------------------------
(* Responses-API: the buffering parseStreamingResponse                     *)
(* (src/services/adapters/responsesAPI.ts:516-583)                         *)

\* Lines 540-563: one parsed value.
RAB_handleParsed(st, d) ==
  LET item == d.item IN
  [st EXCEPT
     !.responseId = IF d.respId # "" THEN d.respId ELSE st.responseId,
     !.acc = IF d.type = "response.output_text.delta" THEN st.acc \o d.delta ELSE st.acc,
     !.toolCalls =
        IF d.type = "response.output_item.done" /\ item.type = "function_call"
          THEN Append(st.toolCalls,
                      [id |-> OrElse(item.call_id, OrElse(item.id, Str("tool_now"))),
                       type |-> "tool_call", name |-> item.name,
                       arguments |-> item.arguments])
          ELSE st.toolCalls]

\* Lines 537-540.
RAB_processLine(st, line) ==
  IF Trim(line) = <<>> THEN st
  ELSE LET parsed == parseSSEChunk(line) IN
         IF parsed.null \/ ~RespDoc(parsed.doc).truthy THEN st
         ELSE RAB_handleParsed([st EXCEPT !.handed = Append(@, parsed.doc)],
                               RespDoc(parsed.doc))

RECURSIVE RAB_processLines(_, _)
RAB_processLines(st, lines) ==
  IF lines = <<>> THEN st
  ELSE RAB_processLines(RAB_processLine(st, Head(lines)), Tail(lines))

\* Lines 520-526.
RAB_Start ==
  /\ adapter = "responsesBuffered" /\ pc = "start"
  /\ pc' = "reading"
  /\ buffer' = <<>>
  /\ responseId' = IF response_id # "" THEN response_id ELSE FallbackId("responses")
  /\ accumulatedContent' = ""
  /\ toolCalls' = <<>>
  /\ UNCHANGED <<adapter, body, response_id, pos, hasStarted, events, handed, failure,
                 reducerVars, requestVars, parseVars, webVars, callVars, cancelledAt>>
  /\ locked' = TRUE

\* Lines 529-566.
RAB_ReadChunk ==
  /\ adapter = "responsesBuffered" /\ pc = "reading"
  /\ \E k \in 1..(Len(body) - pos) :
       LET text == buffer \o SubSeq(body, pos + 1, pos + k)
           lines == Split(text)
           st == RAB_processLines(Locals, SubSeq(lines, 1, Len(lines) - 1))
       IN /\ pos' = pos + k
          /\ buffer' = lines[Len(lines)]
          /\ responseId' = st.responseId
          /\ accumulatedContent' = st.acc
          /\ toolCalls' = toolCalls \o st.toolCalls
          /\ handed' = handed \o st.handed
  /\ UNCHANGED <<adapter, body, response_id, pc, hasStarted, events, failure,
                 reducerVars, requestVars, parseVars, webVars, callVars, cancelVars>>

\* Lines 571-582: the UnifiedResponse of the buffering path; its content is the
\* text itself.
RAB_unified(rid, text, calls) ==
  [id |-> rid, content |-> text, toolCalls |-> calls,
   usage |-> [promptTokens |-> 0, completionTokens |-> 0, reasoningTokens |-> 0],
   responseId |-> rid]

\* Lines 530-531 and 571-582: the reader reports done.
RAB_ReadDone ==
  /\ adapter = "responsesBuffered" /\ pc = "reading"
  /\ pos = Len(body)
  /\ unified' = RAB_unified(responseId, accumulatedContent, toolCalls)
  /\ pc' = "done"
  /\ UNCHANGED <<adapter, body, response_id, pos, buffer, responseId, hasStarted,
                 accumulatedContent, events, toolCalls, handed, failure, rpc,
                 assistantMessage, requestVars, parseVars, webVars, callVars, cancelVars>>

\* Lines 530 and 567-582: reader.read() rejects; the catch logs the error.
RAB_ReadReject ==
  /\ adapter = "responsesBuffered" /\ pc = "reading"
  /\ \E e \in ReadErrors :
       failure' = [failed |-> TRUE, msg |-> e.message, before |-> events,
                   text |-> accumulatedContent]
  /\ unified' = RAB_unified(responseId, accumulatedContent, toolCalls)
  /\ pc' = "done"
  /\ UNCHANGED <<adapter, body, response_id, pos, buffer, responseId, hasStarted,
                 accumulatedContent, events, toolCalls, handed, rpc,
                 assistantMessage, requestVars, parseVars, webVars, callVars, cancelVars>>

\* The transport is aborted while the parser awaits reader.read(): the read
\* rejects, the catch of lines 567-569 logs it and the result is returned.  The
\* reader is not released.
RAB_Cancel ==
  /\ adapter = "responsesBuffered" /\ pc = "reading" /\ cancelledAt = -1
  /\ failure' = [failed |-> TRUE, msg |-> "This operation was aborted",
                 before |-> events, text |-> accumulatedContent]
  /\ unified' = RAB_unified(responseId, accumulatedContent, toolCalls)
  /\ cancelledAt' = Len(events)
  /\ pc' = "done"
  /\ UNCHANGED <<adapter, body, response_id, pos, buffer, responseId, hasStarted,
                 accumulatedContent, events, toolCalls, handed, rpc,
                 assistantMessage, requestVars, parseVars, webVars, callVars, locked>>

-----------------------------------------------------------------------------
(* Responses-API: parseNonStreamingResponse and parseToolCalls, in the      *)
(* revisions of responsesAPI.ts:461-514, 703-716 and part_017:130-180,      *)
(* 390-429                                                                  *)

\* Number of items of a buffered response's output array.
MaxItems == 2
\* Number of messages of a conversation.
MaxMessages == 2
\* Number of system prompts of a request.
MaxPrompts == 2
\* Number of createRequest calls on one adapter instance.
MaxRequests == 3

\* An item of response.output.  `content` tells whether item.content is an
\* array (of `parts`), a string (`text`) or missing.
OutItem(type) ==
  [type |-> type, content |-> "none", parts |-> <<>>, text |-> "",
   call_id |-> Undef, id |-> Undef, name |-> Undef, arguments |-> Undef]
Part(type, text) == [type |-> type, text |-> text]

OutputItem(name) ==
  CASE name = "iMsgText" ->
         \* {"type":"message","content":[{"type":"text","text":"a"},{"type":"text","text":"b"}]}
         [OutItem("message") EXCEPT !.content = "array",
            !.parts = <<Part("text", "a"), Part("text", "b")>>]
    [] name = "iMsgOut" ->
         \* {"type":"message","content":[{"type":"output_text","text":"c"}]}
         [OutItem("message") EXCEPT !.content = "array",
            !.parts = <<Part("output_text", "c")>>]
    [] name = "iMsgStr" ->
         \* {"type":"message","content":"s"}
         [OutItem("message") EXCEPT !.content = "string", !.text = "s"]
    [] name = "iMsgNone" ->
         \* {"type":"message"}
         OutItem("message")
    [] name = "iFn" ->
         \* {"type":"function_call","call_id":"c1","id":"fc_1","name":"f","arguments":"{}"}
         [OutItem("function_call") EXCEPT !.call_id = Str("c1"), !.id = Str("fc_1"),
            !.name = Str("f"), !.arguments = Str("{}")]
    [] name = "iTool" ->
         \* {"type":"tool_call","id":"t1","name":"g","arguments":"{}"}
         [OutItem("tool_call") EXCEPT !.id = Str("t1"), !.name = Str("g"),
            !.arguments = Str("{}")]

OutputItemNames == {"iMsgText", "iMsgOut", "iMsgStr", "iMsgNone", "iFn", "iTool"}

\* Array.prototype.join on strings.
RECURSIVE JoinText(_, _)
JoinText(texts, sep) ==
  IF texts = <<>> THEN ""
  ELSE IF Len(texts) = 1 THEN texts[1]
  ELSE texts[1] \o sep \o JoinText(Tail(texts), sep)

RECURSIVE PartTexts(_)
\* .filter(c => c.type === 'text').map(c => c.text)
PartTexts(parts) ==
  IF parts = <<>> THEN <<>>
  ELSE (IF Head(parts).type = "text" THEN <<Head(parts).text>> ELSE <<>>)
       \o PartTexts(Tail(parts))

\* Lines 479-487: the text of one message item.
RA_itemText(item) ==
  IF item.content = "array" THEN JoinText(PartTexts(item.parts), "\n")
  ELSE IF item.content = "string" THEN item.text
  ELSE ""

RECURSIVE RA_messageTexts(_)
\* Lines 476-488: the non-empty texts of the message items, in order.
RA_messageTexts(output) ==
  IF output = <<>> THEN <<>>
  ELSE (IF Head(output).type = "message" /\ RA_itemText(Head(output)) # ""
          THEN <<RA_itemText(Head(output))>> ELSE <<>>)
       \o RA_messageTexts(Tail(output))

\* Lines 473-491: the text of the response.
RA_content(resp) ==
  IF resp.hasOutput /\ \E i \in 1..Len(resp.output) : resp.output[i].type = "message"
    THEN JoinText(RA_messageTexts(resp.output), "\n\n")
    ELSE OrElse(resp.output_text, Str("")).s

\* Mutant of RA_contentArray: the content is empty when there is no text.
RA_contentArray_drop(content) == IF content # "" THEN <<TextBlock(content)>> ELSE <<>>

\* Lines 498-500: the text as one text block.
RA_contentArray(content) ==
  IF content # "" THEN <<TextBlock(content)>> ELSE <<TextBlock("")>>

RECURSIVE RA2_parseToolCalls(_)
\* responsesAPI.ts:703-716, on the output array.
RA2_parseToolCalls(output) ==
  IF output = <<>> THEN <<>>
  ELSE (IF Head(output).type = "tool_call"
          THEN << [id |-> OrElse(Head(output).id, Str("tool_now")), type |-> "tool_call",
                   name |-> Head(output).name, arguments |-> Head(output).arguments] >>
          ELSE <<>>)
       \o RA2_parseToolCalls(Tail(output))

RECURSIVE parseToolCalls(_)
\* part_017:390-429, on the output array.
parseToolCalls(output) ==
  IF output = <<>> THEN <<>>
  ELSE LET item == Head(output)
           callId == OrElse(item.call_id, item.id)
           name == OrElse(item.name, Str(""))
           args == OrElse(item.arguments, Str("{}"))
       IN (IF item.type = "function_call"
             THEN (IF IsString(callId) /\ IsString(name) /\ IsString(args)
                     THEN << [id |-> callId, type |-> "function", name |-> name,
                              arguments |-> args] >>
                     ELSE <<>>)
           ELSE IF item.type = "tool_call"
             THEN << [id |-> OrElse(item.id, Str("tool_random")), type |-> "tool_call",
                      name |-> item.name, arguments |-> item.arguments] >>
           ELSE <<>>)
          \o parseToolCalls(Tail(output))

\* responsesAPI.ts:471-514.
RA2_parseNonStreamingResponse(resp) ==
  [id |-> OrElse(resp.id, Str("resp_now")),
   content |-> RA_contentArray(RA_content(resp)),
   toolCalls |-> IF resp.hasOutput THEN RA2_parseToolCalls(resp.output) ELSE <<>>,
   usage |-> [promptTokens |-> Def(OrZero(resp.usage.input_tokens)),
              completionTokens |-> Def(OrZero(resp.usage.output_tokens)),
              input_tokens |-> NoNum, output_tokens |-> NoNum, totalTokens |-> NoNum,
              reasoningTokens |-> resp.usage.reasoning_tokens],
   responseId |-> resp.id]

\* part_017:130-180.
parseNonStreamingResponse(resp) ==
  LET promptTokens == OrZero(resp.usage.input_tokens)
      completionTokens == OrZero(resp.usage.output_tokens)
  IN [id |-> OrElse(resp.id, Str("resp_now")),
      content |-> RA_contentArray(RA_content(resp)),
      toolCalls |-> IF resp.hasOutput THEN parseToolCalls(resp.output) ELSE <<>>,
      usage |-> [promptTokens |-> Def(promptTokens),
                 completionTokens |-> Def(completionTokens),
                 input_tokens |-> Def(promptTokens),
                 output_tokens |-> Def(completionTokens),
                 totalTokens |-> Nullish(resp.usage.total_tokens,
                                         Def(promptTokens + completionTokens)),
                 reasoningTokens |-> resp.usage.reasoning_tokens],
      responseId |-> resp.id]

\* The buffered responses: with and without id, output_text, output array and usage.
Outputs == UNION {[1..n -> {OutputItem(i) : i \in OutputItemNames}] : n \in 0..MaxItems}
Responses ==
  [id : {Undef, Str("resp_1")},
   output_text : {Undef, Str(""), Str("t")},
   hasOutput : {TRUE},
   output : Outputs,
   usage : {NoRespUsage, RespDoc("rDone2").usage}]
  \cup
  [id : {Undef, Str("resp_1")},
   output_text : {Undef, Str(""), Str("t")},
   hasOutput : {FALSE},
   output : {<<>>},
   usage : {NoRespUsage, RespDoc("rDone2").usage}]

\* responsesAPI.ts:461-514: parseResponse on a response without a body.
RA2_ParseNonStreaming ==
  /\ ppc = "ready" /\ version = "responses-2"
  /\ unified' = RA2_parseNonStreamingResponse(response)
  /\ ppc' = "returned"
  /\ UNCHANGED webVars
  /\ UNCHANGED <<adapter, body, response_id, pos, pc, buffer, responseId, hasStarted,
                 accumulatedContent, events, toolCalls, handed, failure, rpc,
                 assistantMessage, requestVars, callVars, cancelVars, response, parsedChunk>>

\* part_017:130-180: parseNonStreamingResponse.
RA_ParseNonStreaming ==
  /\ ppc = "ready" /\ version = "responses-3"
  /\ unified' = parseNonStreamingResponse(response)
  /\ ppc' = "returned"
  /\ UNCHANGED webVars
  /\ UNCHANGED <<adapter, body, response_id, pos, pc, buffer, responseId, hasStarted,
                 accumulatedContent, events, toolCalls, handed, failure, rpc,
                 assistantMessage, requestVars, callVars, cancelVars, response, parsedChunk>>

\* The usage objects of a terminal event: each count given or missing.
ProviderUsages ==
  [present : {TRUE},
   input_tokens : {NoNum, Def(0), Def(5), Def(12)},
   output_tokens : {NoNum, Def(8)},
   total_tokens : {NoNum, Def(20), Def(25)},
   reasoning_tokens : {NoNum, Def(0), Def(3)}]

\* part_017:183-239: processStreamingChunk called on one parsed chunk, its
\* events collected.
RA_ProcessStreamingChunk ==
  /\ ppc = "chunk"
  /\ events' = events \o processStreamingChunk(parsedChunk, responseId, hasStarted,
                                                accumulatedContent)
  /\ ppc' = "yielded"
  /\ UNCHANGED webVars
  /\ UNCHANGED <<adapter, body, response_id, pos, pc, buffer, responseId, hasStarted,
                 accumulatedContent, toolCalls, handed, failure, reducerVars,
                 requestVars, callVars, cancelVars, response, parsedChunk>>

-----------------------------------------------------------------------------
(* createRequest: Chat Completions, and the Responses API in its three     *)
(* revisions                                                               *)

Bool(b) == [t |-> "boolean", s |-> IF b THEN "true" ELSE "false"]

NoCapabilities ==
  [maxTokensField |-> "", temperatureMode |-> "", supportsReasoningEffort |-> FALSE,
   supportsVerbosity |-> FALSE, supportsAllowedTools |-> FALSE,
   supportsParallelCalls |-> FALSE, supportsPreviousResponseId |-> FALSE]
NoProfile == [modelName |-> "", reasoningEffort |-> Undef]

\* UnifiedRequestParams.  `messages` is a sequence of message names (see Message),
\* `systemPrompt` a sequence of strings, each a sequence of characters, `tools`
\* the number of tools, `temperature` the caller's temperature in tenths.
NoParams ==
  [messages |-> <<>>, systemPrompt |-> <<>>, maxTokens |-> 0, stream |-> Undef,
   reasoningEffort |-> Undef, verbosity |-> Undef, temperature |-> NoNum,
   tools |-> 0, allowedTools |-> FALSE, previousResponseId |-> Undef]
NoReasoning == [present |-> FALSE, effort |-> Undef]
NoText == [present |-> FALSE, verbosity |-> Undef]
NoStreamOptions == [present |-> FALSE, include_usage |-> FALSE]

\* A request payload.  A key the payload lacks keeps its default: Undef, NoNum,
\* no tools, an empty list.  `tools` is the number of tool definitions, and
\* `temperature` is in tenths.  `input` and `instructions` are the Responses-API
\* keys; `messages`, `max_tokens`, `max_completion_tokens`, `reasoning_effort`,
\* `verbosity` and `stream_options` are the Chat-Completions keys.
NoRequest ==
  [model |-> "", max_output_tokens |-> 0, stream |-> Undef, temperature |-> NoNum,
   reasoning |-> NoReasoning, text |-> NoText, tools |-> 0, tool_choice |-> "",
   parallel_tool_calls |-> Undef, store |-> Undef, previous_response_id |-> Undef,
   include |-> <<>>, input |-> <<>>, instructions |-> <<>>,
   messages |-> <<>>, max_tokens |-> NoNum, max_completion_tokens |-> NoNum,
   reasoning_effort |-> Undef, verbosity |-> Undef, stream_options |-> NoStreamOptions]

\* A JavaScript array as a typed value.
Arr(parts) == [t |-> "array", s |-> "", parts |-> parts]

\* A content part of a message: {type, text, content, image_url}.
MPart(type, text, content, image_url) ==
  [type |-> type, text |-> text, content |-> content, image_url |-> image_url]

\* An entry of an assistant message's tool_calls.
ToolCallEntry(type, id, name, arguments) ==
  [type |-> type, id |-> id, call_id |-> Undef,
   function |-> [name |-> name, arguments |-> arguments]]

NoMsg ==
  [role |-> "", content |-> Undef, tool_call_id |-> Undef, id |-> Undef,
   hasToolCalls |-> FALSE, tool_calls |-> <<>>]

\* The caller's messages, by name.
Message(name) ==
  CASE name = "mU" ->    \* {role:'user', content:'hi'}
         [NoMsg EXCEPT !.role = "user", !.content = Str("hi")]
    [] name = "mUE" ->   \* {role:'user', content:''}
         [NoMsg EXCEPT !.role = "user", !.content = Str("")]
    [] name = "mUA" ->   \* {role:'user', content:[{type:'text',text:'see'},{type:'image_url',image_url:'u'}]}
         [NoMsg EXCEPT !.role = "user",
            !.content = Arr(<<MPart("text", Str("see"), Undef, Undef),
                              MPart("image_url", Undef, Undef, Str("u"))>>)]
    [] name = "mA" ->    \* {role:'assistant', content:'ok'}
         [NoMsg EXCEPT !.role = "assistant", !.content = Str("ok")]
    [] name = "mAT" ->   \* {role:'assistant', tool_calls:[{id:'c1',function:{name:'f',arguments:'{}'}},
                         \*                                 {type:'custom',id:'c9',function:{...}}]}
         [NoMsg EXCEPT !.role = "assistant", !.hasToolCalls = TRUE,
            !.tool_calls = <<ToolCallEntry(Undef, Str("c1"), Str("f"), Str("{}")),
                             ToolCallEntry(Str("custom"), Str("c9"), Str("f"), Str("{}"))>>]
    [] name = "mATC" ->  \* {role:'assistant', content:'calling f', tool_calls:[{id:'c1',function:{name:'f',arguments:'{}'}}]}
         [NoMsg EXCEPT !.role = "assistant", !.content = Str("calling f"),
            !.hasToolCalls = TRUE,
            !.tool_calls = <<ToolCallEntry(Undef, Str("c1"), Str("f"), Str("{}"))>>]
    [] name = "mT1" ->   \* {role:'tool', tool_call_id:'c1', content:'out1'}
         [NoMsg EXCEPT !.role = "tool", !.tool_call_id = Str("c1"), !.content = Str("out1")]
    [] name = "mT2" ->   \* {role:'tool', id:'c2', content:[{text:'a'},{content:'b'},{text:''}]}
         [NoMsg EXCEPT !.role = "tool", !.id = Str("c2"),
            !.content = Arr(<<MPart("text", Str("a"), Undef, Undef),
                              MPart("text", Undef, Str("b"), Undef),
                              MPart("text", Str(""), Undef, Undef)>>)]
    [] name = "mT3" ->   \* {role:'tool', tool_call_id:'c3'}
         [NoMsg EXCEPT !.role = "tool", !.tool_call_id = Str("c3")]
    [] name = "mTN" ->   \* {role:'tool', content:'lost'}, a tool message with no call id
         [NoMsg EXCEPT !.role = "tool", !.content = Str("lost")]
    [] OTHER -> NoMsg

MessageNames == {"mU", "mUE", "mUA", "mA", "mAT", "mATC", "mT1", "mT2", "mT3", "mTN"}

\* An item of the Responses-API input list.
NoInputItem ==
  [type |-> "", role |-> "", content |-> <<>>, name |-> "", arguments |-> "",
   call_id |-> "", output |-> ""]

\* a || b on typed values, arrays included.
Or2(a, b) == IF a.t = "array" \/ Truthy(a) THEN a ELSE b

RECURSIVE RA_toolTexts(_)
\* responsesAPI.ts:617-622 (part_017:296-305): the non-empty string texts of
\* the parts of a tool result.
RA_toolTexts(parts) ==
  IF parts = <<>> THEN <<>>
  ELSE LET t == OrElse(Head(parts).text, Head(parts).content)
       IN  (IF IsString(t) /\ Truthy(t) THEN <<t.s>> ELSE <<>>)
           \o RA_toolTexts(Tail(parts))

\* responsesAPI.ts:611-632 (part_017:290-316): the items a tool message adds.
RA_toolItems(m) ==
  LET callId == OrElse(m.tool_call_id, m.id)
      content == Or2(m.content, Str(""))
      text == IF content.t = "array"
                THEN Str(JoinText(RA_toolTexts(content.parts), "\n")) ELSE content
  IN  IF IsString(callId) /\ Truthy(callId) /\ IsString(text)
        THEN << [NoInputItem EXCEPT !.type = "function_call_output",
                               !.call_id = callId.s, !.output = text.s] >>
        ELSE <<>>

RECURSIVE RA_callItems(_)
\* responsesAPI.ts:634-656 (part_017:318-343): the items an assistant
\* message's tool calls add.
RA_callItems(tcs) ==
  IF tcs = <<>> THEN <<>>
  ELSE LET tc == Head(tcs)
           tcType == OrElse(tc.type, Str("function"))
           callId == OrElse(tc.id, tc.call_id)
       IN  (IF tcType = Str("function") /\ IsString(callId)
                /\ IsString(tc.function.name) /\ IsString(tc.function.arguments)
              THEN << [NoInputItem EXCEPT !.type = "function_call",
                                     !.name = tc.function.name.s,
                                     !.arguments = tc.function.arguments.s,
                                     !.call_id = callId.s] >>
              ELSE <<>>)
           \o RA_callItems(Tail(tcs))

RECURSIVE RA_contentItems(_, _)
\* responsesAPI.ts:662-681 (part_017:349-368): the content items of the parts
\* of a text message.
RA_contentItems(role, parts) ==
  IF parts = <<>> THEN <<>>
  ELSE LET part == Head(parts)
           text == OrElse(part.text, OrElse(part.content, Str("")))
           url == part.image_url
       IN  (IF part.type = "text"
              THEN (IF IsString(text) /\ Truthy(text)
                      THEN << [type |-> IF role = "assistant" THEN "output_text"
                                                              ELSE "input_text",
                               text |-> text.s, image_url |-> ""] >>
                      ELSE <<>>)
            ELSE IF part.type = "image_url"
              THEN (IF IsString(url) /\ Truthy(url)
                      THEN << [type |-> "input_image", text |-> "",
                               image_url |-> url.s] >>
                      ELSE <<>>)
            ELSE <<>>)
           \o RA_contentItems(role, Tail(parts))

\* responsesAPI.ts:658-689 (part_017:345-376): the items a text message adds.
RA_messageItems(m) ==
  LET content == Or2(m.content, Str(""))
      contentItems ==
        IF content.t = "array" THEN RA_contentItems(m.role, content.parts)
        ELSE IF IsString(content) /\ Truthy(content)
          THEN << [type |-> IF m.role = "assistant" THEN "output_text" ELSE "input_text",
                   text |-> content.s, image_url |-> ""] >>
        ELSE <<>>
  IN  IF contentItems # <<>>
        THEN << [NoInputItem EXCEPT !.type = "message",
                               !.role = IF m.role = "assistant" THEN "assistant"
                                                                ELSE "user",
                               !.content = contentItems] >>
        ELSE <<>>

\* An input list that puts the tool results first.
RA_pushItems_toolsFirst(inputItems, m) ==
  IF m.role = "tool" THEN RA_toolItems(m) \o inputItems
  ELSE IF m.role = "assistant" /\ m.hasToolCalls
    THEN inputItems \o RA_callItems(m.tool_calls)
  ELSE inputItems \o RA_messageItems(m)

\* One turn of the loop of convertMessagesToInput: the input list after
\* message m.
RA_pushItems(inputItems, m) ==
  IF m.role = "tool" THEN inputItems \o RA_toolItems(m)
  ELSE IF m.role = "assistant" /\ m.hasToolCalls
    THEN inputItems \o RA_callItems(m.tool_calls)
  ELSE inputItems \o RA_messageItems(m)

RECURSIVE RA_convertFrom(_, _)
RA_convertFrom(inputItems, names) ==
  IF names = <<>> THEN inputItems
  ELSE RA_convertFrom(RA_pushItems(inputItems, Message(Head(names))), Tail(names))

\* responsesAPI.ts:603-692 (240-329 in the earliest revision, part_017:282-379).
convertMessagesToInput(names) == RA_convertFrom(<<>>, names)

RECURSIVE JoinSeqs(_, _)
\* Array.prototype.join on strings that are sequences of characters.
JoinSeqs(strs, sep) ==
  IF strs = <<>> THEN <<>>
  ELSE IF Len(strs) = 1 THEN strs[1]
  ELSE strs[1] \o sep \o JoinSeqs(Tail(strs), sep)

\* A buildInstructions that filters nothing.
buildInstructions_all(systemPrompt) == JoinSeqs(systemPrompt, <<"NL", "NL">>)

\* responsesAPI.ts:694-701: the prompts that are not blank, joined by a blank line.
buildInstructions(systemPrompt) ==
  JoinSeqs(SelectSeq(systemPrompt, LAMBDA content : Trim(content) # <<>>),
           <<"NL", "NL">>)

\* An entry of the Chat-Completions messages list: a system entry made of a
\* prompt, or a caller's message.
SystemEntry(prompt) == [role |-> "system", content |-> prompt, message |-> ""]
CallerEntry(name) == [role |-> Message(name).role, content |-> <<>>, message |-> name]

\* chatCompletions.ts:108-116.
buildMessages(systemPrompt, names) ==
  [i \in 1..Len(systemPrompt) |-> SystemEntry(systemPrompt[i])]
  \o [i \in 1..Len(names) |-> CallerEntry(names[i])]

\* part_016:54-56.
getMaxTokensParam(caps) == caps.maxTokensField

\* A temperature resolution that knows no fixed_one mode.
getTemperature_noFixedOne(caps) ==
  IF caps.temperatureMode = "restricted" THEN (IF 10 < 7 THEN 10 ELSE 7)
  ELSE 7

\* part_016:58-66, in tenths.
getTemperature(caps) ==
  IF caps.temperatureMode = "fixed_one" THEN 10
  ELSE IF caps.temperatureMode = "restricted" THEN (IF 10 < 7 THEN 10 ELSE 7)
  ELSE 7

\* part_016:68-70.
shouldIncludeReasoningEffort(caps) == caps.supportsReasoningEffort

\* part_016:72-74.
shouldIncludeVerbosity(caps) == caps.supportsVerbosity

\* String.prototype.startsWith('o1') on the model names in use.
StartsWithO1(modelName) == modelName \in {"o1", "o1-mini", "o1-preview"}

\* A createRequest whose o1 rule forgets stream_options.
CC_createRequest_o1KeepsOptions(caps, profile, ps) ==
  LET o1 == StartsWithO1(profile.modelName)
      field == getMaxTokensParam(caps)
  IN  [NoRequest EXCEPT
         !.model = profile.modelName,
         !.messages = buildMessages(ps.systemPrompt, ps.messages),
         !.max_tokens = IF field = "max_tokens" THEN Def(ps.maxTokens) ELSE NoNum,
         !.max_completion_tokens =
            IF field = "max_completion_tokens" THEN Def(ps.maxTokens) ELSE NoNum,
         !.temperature = IF o1 THEN NoNum ELSE Def(getTemperature(caps)),
         !.tools = ps.tools,
         !.tool_choice = IF ps.tools > 0 THEN "auto" ELSE "",
         !.reasoning_effort =
            IF shouldIncludeReasoningEffort(caps) /\ Truthy(ps.reasoningEffort)
              THEN ps.reasoningEffort ELSE Undef,
         !.verbosity =
            IF shouldIncludeVerbosity(caps) /\ Truthy(ps.verbosity)
              THEN ps.verbosity ELSE Undef,
         !.stream = IF Truthy(ps.stream) /\ ~o1 THEN Bool(TRUE) ELSE Undef,
         !.stream_options =
            IF Truthy(ps.stream)
              THEN [present |-> TRUE, include_usage |-> TRUE] ELSE NoStreamOptions]

\* chatCompletions.ts:7-53.
CC_createRequest(caps, profile, ps) ==
  LET o1 == StartsWithO1(profile.modelName)
      field == getMaxTokensParam(caps)
  IN  [NoRequest EXCEPT
         !.model = profile.modelName,
         !.messages = buildMessages(ps.systemPrompt, ps.messages),
         !.max_tokens = IF field = "max_tokens" THEN Def(ps.maxTokens) ELSE NoNum,
         !.max_completion_tokens =
            IF field = "max_completion_tokens" THEN Def(ps.maxTokens) ELSE NoNum,
         !.temperature = IF o1 THEN NoNum ELSE Def(getTemperature(caps)),
         !.tools = ps.tools,
         !.tool_choice = IF ps.tools > 0 THEN "auto" ELSE "",
         !.reasoning_effort =
            IF shouldIncludeReasoningEffort(caps) /\ Truthy(ps.reasoningEffort)
              THEN ps.reasoningEffort ELSE Undef,
         !.verbosity =
            IF shouldIncludeVerbosity(caps) /\ Truthy(ps.verbosity)
              THEN ps.verbosity ELSE Undef,
         !.stream = IF Truthy(ps.stream) /\ ~o1 THEN Bool(TRUE) ELSE Undef,
         !.stream_options =
            IF Truthy(ps.stream) /\ ~o1
              THEN [present |-> TRUE, include_usage |-> TRUE] ELSE NoStreamOptions]

\* The keys all three revisions set alike: model, input, instructions,
\* max_output_tokens, temperature, text, tools, previous_response_id.
RA_baseRequest(caps, profile, ps) ==
  [NoRequest EXCEPT
     !.model = profile.modelName,
     !.input = convertMessagesToInput(ps.messages),
     !.instructions = buildInstructions(ps.systemPrompt),
     !.max_output_tokens = ps.maxTokens,
     !.temperature = IF getTemperature(caps) = 10 THEN Def(10) ELSE NoNum,
     !.text = IF shouldIncludeVerbosity(caps)
                THEN [present |-> TRUE, verbosity |-> OrElse(ps.verbosity, Str("high"))]
                ELSE NoText,
     !.tools = ps.tools,
     !.previous_response_id =
        IF Truthy(ps.previousResponseId) /\ caps.supportsPreviousResponseId
          THEN ps.previousResponseId ELSE Undef]

\* responsesAPI.ts:7-62, the earliest revision.
RA1_createRequest(caps, profile, ps) ==
  [RA_baseRequest(caps, profile, ps) EXCEPT
     !.stream = Bool(TRUE),
     !.reasoning =
        IF shouldIncludeReasoningEffort(caps)
          THEN [present |-> TRUE,
                effort |-> OrElse(ps.reasoningEffort,
                                  OrElse(profile.reasoningEffort, Str("medium")))]
          ELSE NoReasoning,
     !.tool_choice = IF ps.tools > 0 /\ ps.allowedTools /\ caps.supportsAllowedTools
                       THEN "allowed_tools" ELSE ""]

\* Mutant of RA_reasoning: only the capability decides, a caller's
\* reasoningEffort alone adds nothing.
RA_reasoning_capabilityOnly(caps, profile, ps) ==
  IF shouldIncludeReasoningEffort(caps)
    THEN [reasoning |-> [present |-> TRUE,
                         effort |-> OrElse(ps.reasoningEffort,
                                           OrElse(profile.reasoningEffort, Str("medium")))],
          include |-> <<"reasoning.encrypted_content">>]
    ELSE [reasoning |-> NoReasoning, include |-> <<>>]

\* Lines 384-391 and 417-420 of responsesAPI.ts (28-36 and 62-66 of part_017):
\* reasoning and include.
RA_reasoning(caps, profile, ps) ==
  IF shouldIncludeReasoningEffort(caps) \/ Truthy(ps.reasoningEffort)
    THEN [reasoning |-> [present |-> TRUE,
                         effort |-> OrElse(ps.reasoningEffort,
                                           OrElse(profile.reasoningEffort, Str("medium")))],
          include |-> <<"reasoning.encrypted_content">>]
    ELSE [reasoning |-> NoReasoning, include |-> <<>>]

\* responsesAPI.ts:362-424, the second revision.
RA2_createRequest(caps, profile, ps) ==
  [RA_baseRequest(caps, profile, ps) EXCEPT
     !.stream = Bool(TRUE),
     !.reasoning = RA_reasoning(caps, profile, ps).reasoning,
     !.include = RA_reasoning(caps, profile, ps).include,
     !.tool_choice = "auto",
     !.parallel_tool_calls = Bool(caps.supportsParallelCalls),
     !.store = Bool(FALSE)]

\* part_017:7-69, the latest revision.
createRequest(caps, profile, ps) ==
  [RA2_createRequest(caps, profile, ps) EXCEPT
     !.stream = Bool(ps.stream # Bool(FALSE))]

\* The capability descriptors of the Responses-API models.
Capabilities ==
  [maxTokensField : {"max_output_tokens"},
   temperatureMode : {"fixed_one", "restricted", "flexible"},
   supportsReasoningEffort : BOOLEAN, supportsVerbosity : BOOLEAN,
   supportsAllowedTools : BOOLEAN, supportsParallelCalls : BOOLEAN,
   supportsPreviousResponseId : BOOLEAN]
\* The capability descriptors of the Chat-Completions models.
ChatCapabilities ==
  [maxTokensField : {"max_tokens", "max_completion_tokens"},
   temperatureMode : {"fixed_one", "restricted", "flexible"},
   supportsReasoningEffort : BOOLEAN, supportsVerbosity : BOOLEAN,
   supportsAllowedTools : {FALSE}, supportsParallelCalls : {TRUE},
   supportsPreviousResponseId : {FALSE}]
Profiles == [modelName : {"gpt-5"}, reasoningEffort : {Undef, Str("low")}]
ChatProfiles == [modelName : {"gpt-4o", "o1-mini"}, reasoningEffort : {Undef}]

\* The system prompts: the empty string, a blank, and two texts.
Prompts == {<<>>, <<"SP">>, <<"s1">>, <<"s2">>}

\* The sequences over S of at most n elements.
SeqsUpTo(S, n) == UNION {[1..k -> S] : k \in 0..n}

\* One user message and one system prompt.
PlainParams ==
  [NoParams EXCEPT !.messages = <<"mU">>, !.systemPrompt = << <<"s1">> >>,
                   !.maxTokens = 1024]

\* The params that vary the options of a Responses-API request.
Params ==
  {[PlainParams EXCEPT !.stream = p.stream, !.reasoningEffort = p.reasoningEffort,
                       !.verbosity = p.verbosity, !.tools = p.tools,
                       !.allowedTools = p.allowedTools,
                       !.previousResponseId = p.previousResponseId] :
     p \in [stream : {Undef, Bool(TRUE), Bool(FALSE)},
            reasoningEffort : {Undef, Str(""), Str("high")},
            verbosity : {Undef, Str("low")},
            tools : {0, 1}, allowedTools : BOOLEAN,
            previousResponseId : {Undef, Str("resp_0")}]}

\* The params of a caller that supplies a temperature: 0.2, 0.7, 1.
TemperatureParams ==
  {[PlainParams EXCEPT !.temperature = t] : t \in {Def(2), Def(7), Def(10)}}

\* The params that vary the options of a Chat-Completions request.
ChatParams ==
  {[PlainParams EXCEPT !.stream = p.stream, !.reasoningEffort = p.reasoningEffort,
                       !.verbosity = p.verbosity, !.tools = p.tools,
                       !.temperature = p.temperature] :
     p \in [stream : {Undef, Bool(TRUE), Bool(FALSE)},
            reasoningEffort : {Undef, Str(""), Str("high")},
            verbosity : {Undef, Str("low")},
            tools : {0, 1},
            temperature : {NoNum, Def(2), Def(7)}]}

\* The params that vary the conversation: the messages and the system prompts.
MessageParams ==
  {[PlainParams EXCEPT !.messages = p.messages, !.systemPrompt = p.systemPrompt] :
     p \in [messages : SeqsUpTo(MessageNames, MaxMessages),
            systemPrompt : SeqsUpTo(Prompts, MaxPrompts)]}

\* No concurrent calls are under way.
CallsIdle == invocations = <<>>

\* No buffered response is being parsed.
ParseIdle == response = <<>> /\ ppc = "idle" /\ parsedChunk = RespEmpty

RequestIdle ==
  /\ version = "none"
  /\ capabilities = NoCapabilities
  /\ modelProfile = NoProfile
  /\ inputs = {}
  /\ requestsLeft = 0
  /\ params = NoParams
  /\ request = NoRequest
  /\ built = <<>>
  /\ qpc = "idle"

\* createRequest is called with params ps and returns payload req.
Returned(ps, req) ==
  /\ params' = ps
  /\ request' = req
  /\ built' = Append(built, [params |-> ps, request |-> req])
  /\ requestsLeft' = requestsLeft - 1
  /\ qpc' = "built"
  /\ UNCHANGED <<streamVars, reducerVars, version, capabilities, modelProfile, inputs,
                 callVars, cancelVars, parseVars, webVars>>

CC_CreateRequest ==
  /\ requestsLeft > 0 /\ version = "chat"
  /\ \E ps \in inputs : Returned(ps, CC_createRequest(capabilities, modelProfile, ps))

RA1_CreateRequest ==
  /\ requestsLeft > 0 /\ version = "responses-1"
  /\ \E ps \in inputs : Returned(ps, RA1_createRequest(capabilities, modelProfile, ps))

\* A createRequest that falls back to the continuation id of the request
\* built before it.
RA2_CreateRequest_remembering ==
  /\ requestsLeft > 0 /\ version = "responses-2"
  /\ \E ps \in inputs :
       Returned(ps, [RA2_createRequest(capabilities, modelProfile, ps) EXCEPT
                       !.previous_response_id =
                          IF @ = Undef THEN request.previous_response_id ELSE @])

RA2_CreateRequest ==
  /\ requestsLeft > 0 /\ version = "responses-2"
  /\ \E ps \in inputs : Returned(ps, RA2_createRequest(capabilities, modelProfile, ps))

RA_CreateRequest ==
  /\ requestsLeft > 0 /\ version = "responses-3"
  /\ \E ps \in inputs : Returned(ps, createRequest(capabilities, modelProfile, ps))

-----------------------------------------------------------------------------
(* Response bodies *)

\* `data: ` and a JSON text.
DataLines(docs) == {<<"D", d>> : d \in docs}

\* A line of malformed JSON, the end sentinel, an empty line.
OtherLines == {<<"D", "X">>, <<"D", "DONE">>, <<>>}

\* The lines of a Chat-Completions body: OtherLines, a line whose JSON value is
\* falsy and a line without the `data: ` prefix.
ChatLines == DataLines(ChatDocNames) \cup OtherLines \cup {<<"D", "jZero">>, <<"C">>}

RespLines == DataLines(RespDocNames) \cup OtherLines

\* The lines about text, tool calls and usage only.
ChatTextLines == DataLines({"cA", "cAR", "cT1", "cU"}) \cup OtherLines
RespTextLines == DataLines({"rHi", "rCreated", "rFn", "rDone"}) \cup OtherLines

RECURSIVE Join(_)
\* The lines, each followed by its newline.
Join(ls) == IF ls = <<>> THEN <<>> ELSE Head(ls) \o <<"NL">> \o Join(Tail(ls))

Bodies(lines) == {Join(ls) : ls \in UNION {[1..n -> lines] : n \in 0..MaxLines}}

-----------------------------------------------------------------------------
(* Two parseStreamingResponse calls on one Chat-Completions adapter, their *)
(* chunks arriving in any order                                            *)

\* Number of newline-terminated lines of each of the two bodies.
MaxCallLines == 2

CallIds == {1, 2}
CallLines == DataLines({"cA", "cAR", "cT1"})
CallBodies == {Join(ls) : ls \in UNION {[1..n -> CallLines] : n \in 0..MaxCallLines}}

\* Lines 119-126: a call's reader position and its closure variables.
NewCall(b) ==
  [body |-> b, pos |-> 0, pc |-> "start", buffer |-> <<>>, responseId |-> "",
   hasStarted |-> FALSE, accumulatedContent |-> "", events |-> <<>>, failed |-> FALSE]

\* Mutant of PAR_locals: hasStarted is a field of the adapter instance, set by
\* whichever call started first.
PAR_locals_shared(cs, i) ==
  [responseId |-> cs[i].responseId,
   hasStarted |-> \E j \in DOMAIN cs : cs[j].hasStarted,
   acc |-> cs[i].accumulatedContent, out |-> <<>>, handed |-> <<>>,
   toolCalls |-> <<>>, thrown |-> FALSE, msg |-> ""]

\* Lines 122-126: call i works on its own closure variables.
PAR_locals(cs, i) ==
  [responseId |-> cs[i].responseId, hasStarted |-> cs[i].hasStarted,
   acc |-> cs[i].accumulatedContent, out |-> <<>>, handed |-> <<>>,
   toolCalls |-> <<>>, thrown |-> FALSE, msg |-> ""]

\* Lines 120-126.
PAR_Start ==
  \E i \in DOMAIN invocations :
    /\ invocations[i].pc = "start"
    /\ invocations' = [invocations EXCEPT ![i].pc = "reading",
                                          ![i].responseId = FallbackId("chat")]
    /\ UNCHANGED <<streamVars, reducerVars, requestVars, parseVars, webVars, cancelVars>>

\* Lines 129-212, for call i.
PAR_ReadChunk ==
  \E i \in DOMAIN invocations :
    /\ invocations[i].pc = "reading"
    /\ \E k \in 1..(Len(invocations[i].body) - invocations[i].pos) :
         LET c == invocations[i]
             text == c.buffer \o SubSeq(c.body, c.pos + 1, c.pos + k)
             lines == Split(text)
             st == CC_processLines(PAR_locals(invocations, i),
                                   SubSeq(lines, 1, Len(lines) - 1))
         IN invocations' =
              [invocations EXCEPT
                 ![i].pos = c.pos + k,
                 ![i].buffer = lines[Len(lines)],
                 ![i].responseId = st.responseId,
                 ![i].hasStarted = st.hasStarted,
                 ![i].accumulatedContent = st.acc,
                 ![i].events =
                    IF st.thrown
                      THEN c.events \o st.out \o
                           <<ErrorEvent(st.msg), CC_messageStop(st.responseId, st.acc)>>
                      ELSE c.events \o st.out,
                 ![i].pc = IF st.thrown THEN "done" ELSE "reading"]
    /\ UNCHANGED <<streamVars, reducerVars, requestVars, parseVars, webVars, cancelVars>>

\* Lines 130-131 and 220-238, for call i.
PAR_ReadDone ==
  \E i \in DOMAIN invocations :
    /\ invocations[i].pc = "reading"
    /\ invocations[i].pos = Len(invocations[i].body)
    /\ invocations' =
         [invocations EXCEPT
            ![i].events = Append(@, CC_messageStop(invocations[i].responseId,
                                                   invocations[i].accumulatedContent)),
            ![i].pc = "done"]
    /\ UNCHANGED <<streamVars, reducerVars, requestVars, parseVars, webVars, cancelVars>>

\* Lines 130 and 214-238, for call i.
PAR_ReadReject ==
  \E i \in DOMAIN invocations :
    /\ invocations[i].pc = "reading"
    /\ \E e \in ReadErrors :
         invocations' =
           [invocations EXCEPT
              ![i].events = @ \o <<ErrorEvent(e.message),
                                   CC_messageStop(invocations[i].responseId,
                                                  invocations[i].accumulatedContent)>>,
              ![i].failed = TRUE,
              ![i].pc = "done"]
    /\ UNCHANGED <<streamVars, reducerVars, requestVars, parseVars, webVars, cancelVars>>

(* WebREPL (src/unnamed/part_009): one REPL behind a web socket.  Every     *)
(* client message runs handleClientMessage; an action is the code between  *)
(* two awaits.                                                             *)

\* The user_input messages a client sends to one REPL.
MaxInputs == 3

\* What queryLLM resolves with: a text block, a tool_use block for a tool that
\* is not registered, for a read-only tool, or for a tool that needs permission.
Blocks == {"text", "unknownTool", "readOnlyTool", "writeTool"}

\* A processUserInput call that passed the guard (lines 80-82) and awaits
\* queryLLM with the signal of controller c.  Its tool call, if any, has the
\* call's number as its id.
NewInput(c) ==
  [pc |-> "llm", controller |-> c, block |-> "none", resolves |-> <<>>,
   executed |-> FALSE, denied |-> FALSE, report |-> ""]

\* Lines 139-159: the end of processUserInput, through the finally.
REPL_return(calls, i, report) ==
  [calls EXCEPT ![i].pc = "returned", ![i].report = report]

\* Lines 224-258 after the permission promise has settled: the tool is executed
\* when approved, else 'Permission denied by user' is reported and the call ends.
REPL_settle(calls, i, by, approved) ==
  LET resolved == [calls EXCEPT ![i].resolves = Append(@, [by |-> by, approved |-> approved])]
  IN  IF calls[i].pc # "approval" THEN resolved
      ELSE IF approved
        THEN [resolved EXCEPT ![i].pc = "executing", ![i].executed = TRUE]
        ELSE REPL_return([resolved EXCEPT ![i].denied = TRUE], i, "assistant_complete")

\* Lines 71-118: a user_input message.
REPL_UserInput ==
  /\ ~closed
  /\ Len(userInputs) + rejected < MaxInputs
  /\ IF isProcessing
       THEN /\ rejected' = rejected + 1
            /\ UNCHANGED <<isProcessing, abortController, userInputs>>
       ELSE \E configured \in BOOLEAN :
              LET i == Len(userInputs) + 1 IN
              /\ userInputs' =
                   IF configured THEN Append(userInputs, NewInput(i))
                   ELSE REPL_return(Append(userInputs, NewInput(i)), i, "error")
              /\ isProcessing' = configured
              /\ abortController' = IF configured THEN i ELSE 0
              /\ UNCHANGED rejected
  /\ UNCHANGED <<pendingApprovals, aborted, closed>>
  /\ UNCHANGED <<streamVars, reducerVars, requestVars, callVars, cancelVars, parseVars,
                 bridgeVars, mcpVars>>

\* Lines 118-159 and 165-236: queryLLM resolves; the response's block is processed.
REPL_LLMResolves ==
  \E i \in DOMAIN userInputs, b \in Blocks :
    /\ userInputs[i].pc = "llm"
    /\ LET got == [userInputs EXCEPT ![i].block = b] IN
       CASE b \in {"text", "unknownTool"} ->
              /\ userInputs' = REPL_return(got, i, "assistant_complete")
              /\ isProcessing' = FALSE
              /\ abortController' = 0
              /\ UNCHANGED pendingApprovals
         [] b = "readOnlyTool" ->
              /\ userInputs' = [got EXCEPT ![i].pc = "executing", ![i].executed = TRUE]
              /\ UNCHANGED <<isProcessing, abortController, pendingApprovals>>
         [] b = "writeTool" ->
              /\ userInputs' = [got EXCEPT ![i].pc = "approval"]
              /\ pendingApprovals' = pendingApprovals \cup {i}
              /\ UNCHANGED <<isProcessing, abortController>>
    /\ UNCHANGED <<rejected, aborted, closed>>
    /\ UNCHANGED <<streamVars, reducerVars, requestVars, callVars, cancelVars, parseVars,
                   bridgeVars, mcpVars>>

\* Lines 146-159: queryLLM rejects, with an AbortError once its signal was aborted.
REPL_LLMRejects ==
  \E i \in DOMAIN userInputs :
    /\ userInputs[i].pc = "llm"
    /\ \E name \in {"Error"} \cup (IF userInputs[i].controller \in aborted
                                      THEN {"AbortError"} ELSE {}) :
         userInputs' = REPL_return(userInputs, i,
                                   IF name = "AbortError" THEN "interrupted" ELSE "error")
    /\ isProcessing' = FALSE
    /\ abortController' = 0
    /\ UNCHANGED <<pendingApprovals, rejected, aborted, closed>>
    /\ UNCHANGED <<streamVars, reducerVars, requestVars, callVars, cancelVars, parseVars,
                   bridgeVars, mcpVars>>

\* Lines 238-265 and 139-159: tool.execute settles.
REPL_ToolReturns ==
  \E i \in DOMAIN userInputs :
    /\ userInputs[i].pc = "executing"
    /\ userInputs' = REPL_return(userInputs, i, "assistant_complete")
    /\ isProcessing' = FALSE
    /\ abortController' = 0
    /\ UNCHANGED <<pendingApprovals, rejected, aborted, closed>>
    /\ UNCHANGED <<streamVars, reducerVars, requestVars, callVars, cancelVars, parseVars,
                   bridgeVars, mcpVars>>

\* What the settling of call id's permission promise changes.
REPL_settled(id, by, approved) ==
  /\ userInputs' = REPL_settle(userInputs, id, by, approved)
  /\ IF userInputs[id].pc = "approval" /\ ~approved
       THEN isProcessing' = FALSE /\ abortController' = 0
       ELSE UNCHANGED <<isProcessing, abortController>>

\* Lines 301-308: a tool_approval message.
REPL_ToolApproval ==
  /\ ~closed
  /\ \E id \in 1..MaxInputs, approved \in BOOLEAN :
       IF id \in pendingApprovals
         THEN /\ pendingApprovals' = pendingApprovals \ {id}
              /\ REPL_settled(id, "tool_approval", approved)
         ELSE UNCHANGED <<pendingApprovals, userInputs, isProcessing, abortController>>
  /\ UNCHANGED <<rejected, aborted, closed>>
  /\ UNCHANGED <<streamVars, reducerVars, requestVars, callVars, cancelVars, parseVars,
                 bridgeVars, mcpVars>>

\* Mutant of REPL_ApprovalTimeout: the timer approves.
REPL_ApprovalTimeout_approves ==
  /\ \E id \in pendingApprovals :
       /\ pendingApprovals' = pendingApprovals \ {id}
       /\ REPL_settled(id, "timeout", TRUE)
  /\ UNCHANGED <<rejected, aborted, closed>>
  /\ UNCHANGED <<streamVars, reducerVars, requestVars, callVars, cancelVars, parseVars,
                 bridgeVars, mcpVars>>

\* Lines 289-293: the 30-second timer of a pending approval fires.
REPL_ApprovalTimeout ==
  /\ \E id \in pendingApprovals :
       /\ pendingApprovals' = pendingApprovals \ {id}
       /\ REPL_settled(id, "timeout", FALSE)
  /\ UNCHANGED <<rejected, aborted, closed>>
  /\ UNCHANGED <<streamVars, reducerVars, requestVars, callVars, cancelVars, parseVars,
                 bridgeVars, mcpVars>>

\* Lines 339-344: an interrupt message.
REPL_Interrupt ==
  /\ ~closed
  /\ aborted' = IF abortController # 0 THEN aborted \cup {abortController} ELSE aborted
  /\ isProcessing' = FALSE
  /\ UNCHANGED <<abortController, pendingApprovals, userInputs, rejected, closed>>
  /\ UNCHANGED <<streamVars, reducerVars, requestVars, callVars, cancelVars, parseVars,
                 bridgeVars, mcpVars>>

RECURSIVE REPL_settleAll(_, _)
\* Lines 362-365: every pending approval is resolved with false.
REPL_settleAll(calls, ids) ==
  IF ids = {} THEN calls
  ELSE LET id == CHOOSE x \in ids : TRUE
       IN  REPL_settleAll(REPL_settle(calls, id, "cleanup", FALSE), ids \ {id})

\* Lines 360-373: cleanup(), when the socket closes.
REPL_Cleanup ==
  /\ ~closed
  /\ userInputs' = REPL_settleAll(userInputs, pendingApprovals)
  /\ pendingApprovals' = {}
  /\ isProcessing' = FALSE
  /\ aborted' = IF abortController # 0 THEN aborted \cup {abortController} ELSE aborted
  /\ abortController' = 0
  /\ closed' = TRUE
  /\ UNCHANGED rejected
  /\ UNCHANGED <<streamVars, reducerVars, requestVars, callVars, cancelVars, parseVars,
                 bridgeVars, mcpVars>>

-----------------------------------------------------------------------------
(* WebSocketBridge (src/unnamed/part_008): every message of the socket runs *)
(* handleMessage (part_018:96-108), which nothing serialises.              *)

\* Lines 255-264: a user_input message.  handleUserInput stores a new
\* AbortController and awaits the system prompt and the context.
WSB_UserInput ==
  /\ Len(bridgeInputs) < MaxInputs
  /\ bridgeAbortController' = Len(bridgeInputs) + 1
  /\ bridgeInputs' = Append(bridgeInputs, [pc |-> "context", passed |-> 0])
  /\ UNCHANGED bridgeAborted
  /\ UNCHANGED <<streamVars, reducerVars, requestVars, callVars, cancelVars, parseVars,
                 replVars, mcpVars>>

\* Lines 266-284: the prompt and the context are there; query() is called with
\* the controller the bridge holds now.
WSB_StartQuery ==
  \E i \in DOMAIN bridgeInputs :
    /\ bridgeInputs[i].pc = "context"
    /\ bridgeInputs' = [bridgeInputs EXCEPT ![i].pc = "query",
                                            ![i].passed = bridgeAbortController]
    /\ UNCHANGED <<bridgeAbortController, bridgeAborted>>
    /\ UNCHANGED <<streamVars, reducerVars, requestVars, callVars, cancelVars, parseVars,
                   replVars, mcpVars>>

\* Lines 262-265 and 343-359: getSystemPrompt or getContext rejects; the catch
\* reports it and the finally drops the controller.
WSB_ContextFails ==
  \E i \in DOMAIN bridgeInputs :
    /\ bridgeInputs[i].pc = "context"
    /\ bridgeInputs' = [bridgeInputs EXCEPT ![i].pc = "returned"]
    /\ bridgeAbortController' = 0
    /\ UNCHANGED bridgeAborted
    /\ UNCHANGED <<streamVars, reducerVars, requestVars, callVars, cancelVars, parseVars,
                   replVars, mcpVars>>

\* Lines 306-359: the query's messages have been forwarded and it ends, or it
\* throws (an AbortError once its controller was aborted); the finally drops
\* the controller the bridge holds.
WSB_QueryEnds ==
  \E i \in DOMAIN bridgeInputs :
    /\ bridgeInputs[i].pc = "query"
    /\ bridgeInputs' = [bridgeInputs EXCEPT ![i].pc = "returned"]
    /\ bridgeAbortController' = 0
    /\ UNCHANGED bridgeAborted
    /\ UNCHANGED <<streamVars, reducerVars, requestVars, callVars, cancelVars, parseVars,
                   replVars, mcpVars>>

\* Lines 365-369: an interrupt message.
WSB_Interrupt ==
  /\ bridgeAborted' = IF bridgeAbortController # 0
                        THEN bridgeAborted \cup {bridgeAbortController}
                        ELSE bridgeAborted
  /\ UNCHANGED <<bridgeAbortController, bridgeInputs>>
  /\ UNCHANGED <<streamVars, reducerVars, requestVars, callVars, cancelVars, parseVars,
                 replVars, mcpVars>>

-----------------------------------------------------------------------------
(* MCP client over SSE (src/unnamed/part_014): keepalive, connection         *)
(* monitoring and reconnection of one wrapped client                       *)

\* Lines 394-396.
MAX_RECONNECT_ATTEMPTS == 5
RECONNECT_BASE_DELAY_MS == 1000
RECONNECT_MAX_DELAY_MS == 30000

\* The attemptReconnect calls that arrive while a reconnection is under way.
MaxSkipped == 3

RECURSIVE Pow2(_)
Pow2(n) == IF n = 0 THEN 1 ELSE 2 * Pow2(n - 1)

\* Mutant of MCP_delay: the delay grows by the base delay per attempt.
MCP_delay_linear(attempts) ==
  LET d == RECONNECT_BASE_DELAY_MS * (attempts + 1)
  IN  IF d < RECONNECT_MAX_DELAY_MS THEN d ELSE RECONNECT_MAX_DELAY_MS

\* Lines 470-474: Math.min(base * 2^attempts, max).
MCP_delay(attempts) ==
  LET d == RECONNECT_BASE_DELAY_MS * Pow2(attempts)
  IN  IF d < RECONNECT_MAX_DELAY_MS THEN d ELSE RECONNECT_MAX_DELAY_MS

\* Mutant of MCP_attemptReconnect: the isReconnecting guard is missing.
MCP_attemptReconnect_unguarded(attempts, running, others, result) ==
  IF attempts >= MAX_RECONNECT_ATTEMPTS
    THEN /\ isReconnecting' = FALSE
         /\ reconnects' = others
         /\ outcome' = "gaveUp"
         /\ UNCHANGED <<delays, skipped>>
    ELSE /\ isReconnecting' = TRUE
         /\ reconnects' = Append(others, [pc |-> "waiting", attempts |-> attempts])
         /\ delays' = IF Len(delays) >= MAX_RECONNECT_ATTEMPTS THEN delays
                      ELSE (IF attempts = 0 THEN <<>> ELSE delays) \o <<MCP_delay(attempts)>>
         /\ outcome' = result
         /\ UNCHANGED skipped

\* Lines 449-482: attemptReconnect up to its first await, entered while
\* reconnectAttempts is `attempts` and isReconnecting is `running`; `others` are
\* the attempts under way and `result` is what has just happened.  The call
\* returns at once when a reconnection is under way or the attempts are used
\* up; else it starts waiting for the backoff delay.
MCP_attemptReconnect(attempts, running, others, result) ==
  IF running
    THEN /\ reconnects' = others
         /\ outcome' = result
         /\ skipped' = skipped + 1
         /\ UNCHANGED <<isReconnecting, delays>>
  ELSE IF attempts >= MAX_RECONNECT_ATTEMPTS
    THEN /\ isReconnecting' = FALSE
         /\ reconnects' = others
         /\ outcome' = "gaveUp"
         /\ UNCHANGED <<delays, skipped>>
    ELSE /\ isReconnecting' = TRUE
         /\ reconnects' = Append(others, [pc |-> "waiting", attempts |-> attempts])
         /\ delays' = (IF attempts = 0 THEN <<>> ELSE delays) \o <<MCP_delay(attempts)>>
         /\ outcome' = result
         /\ UNCHANGED skipped

\* Lines 408-413: the keepalive interval fires and getServerCapabilities() is awaited.
MCP_KeepaliveTick ==
  /\ keepaliveTimer /\ ~keepaliveCheck
  /\ keepaliveCheck' = TRUE
  /\ UNCHANGED <<isReconnecting, reconnectAttempts, keepaliveTimer, reconnects, delays, outcome,
                 skipped>>
  /\ UNCHANGED <<streamVars, reducerVars, requestVars, callVars, cancelVars, parseVars,
                 replVars, bridgeVars>>

\* Lines 413-416: the keepalive check passes.
MCP_KeepaliveOk ==
  /\ keepaliveCheck
  /\ keepaliveCheck' = FALSE
  /\ UNCHANGED <<isReconnecting, reconnectAttempts, keepaliveTimer, reconnects, delays, outcome,
                 skipped>>
  /\ UNCHANGED <<streamVars, reducerVars, requestVars, callVars, cancelVars, parseVars,
                 replVars, bridgeVars>>

\* Lines 417-441: the keepalive check fails.
MCP_KeepaliveFails ==
  /\ keepaliveCheck
  /\ isReconnecting => skipped < MaxSkipped
  /\ keepaliveCheck' = FALSE
  /\ keepaliveTimer' = FALSE
  /\ MCP_attemptReconnect(reconnectAttempts, isReconnecting, reconnects, outcome)
  /\ UNCHANGED reconnectAttempts
  /\ UNCHANGED <<streamVars, reducerVars, requestVars, callVars, cancelVars, parseVars,
                 replVars, bridgeVars>>

\* Lines 538-567: transport.onerror.
MCP_TransportError ==
  /\ isReconnecting => skipped < MaxSkipped
  /\ keepaliveTimer' = FALSE
  /\ MCP_attemptReconnect(reconnectAttempts, isReconnecting, reconnects, outcome)
  /\ UNCHANGED <<reconnectAttempts, keepaliveCheck>>
  /\ UNCHANGED <<streamVars, reducerVars, requestVars, callVars, cancelVars, parseVars,
                 replVars, bridgeVars>>

\* Lines 569-588: transport.onclose.
MCP_TransportClose ==
  /\ isReconnecting => skipped < MaxSkipped
  /\ keepaliveTimer' = FALSE
  /\ MCP_attemptReconnect(reconnectAttempts, isReconnecting, reconnects, outcome)
  /\ UNCHANGED <<reconnectAttempts, keepaliveCheck>>
  /\ UNCHANGED <<streamVars, reducerVars, requestVars, callVars, cancelVars, parseVars,
                 replVars, bridgeVars>>

\* The sequence without its i-th element.
Without(seq, i) == SubSeq(seq, 1, i - 1) \o SubSeq(seq, i + 1, Len(seq))

\* Lines 481-494: the backoff delay has elapsed; connectToServer is awaited.
MCP_DelayElapsed ==
  \E i \in DOMAIN reconnects :
    /\ reconnects[i].pc = "waiting"
    /\ reconnects' = [reconnects EXCEPT ![i].pc = "connecting"]
    /\ UNCHANGED <<isReconnecting, reconnectAttempts, keepaliveTimer, keepaliveCheck,
                   delays, outcome, skipped>>
    /\ UNCHANGED <<streamVars, reducerVars, requestVars, callVars, cancelVars, parseVars,
                   replVars, bridgeVars>>

\* Lines 494-508: connectToServer resolves.
MCP_ConnectSucceeds ==
  \E i \in DOMAIN reconnects :
    /\ reconnects[i].pc = "connecting"
    /\ reconnects' = Without(reconnects, i)
    /\ reconnectAttempts' = 0
    /\ isReconnecting' = FALSE
    /\ keepaliveTimer' = TRUE
    /\ outcome' = "succeeded"
    /\ UNCHANGED <<keepaliveCheck, delays, skipped>>
    /\ UNCHANGED <<streamVars, reducerVars, requestVars, callVars, cancelVars, parseVars,
                   replVars, bridgeVars>>

\* Lines 509-517: connectToServer rejects; the catch counts the failure, clears
\* isReconnecting and calls attemptReconnect again.
MCP_ConnectFails ==
  \E i \in DOMAIN reconnects :
    /\ reconnects[i].pc = "connecting"
    /\ reconnectAttempts' = reconnects[i].attempts + 1
    /\ MCP_attemptReconnect(reconnects[i].attempts + 1, FALSE, Without(reconnects, i),
                            "failed")
    /\ UNCHANGED <<keepaliveTimer, keepaliveCheck>>
    /\ UNCHANGED <<streamVars, reducerVars, requestVars, callVars, cancelVars, parseVars,
                   replVars, bridgeVars>>

-----------------------------------------------------------------------------
\* The state after construction: parseResponse (or parseStreamingResponse) has been
\* called on a response with one of the given bodies and ids, and nothing has
\* been read.
InitOn(adapters, chatBodies, respBodies, ids) ==
  /\ adapter \in adapters
  /\ body \in (IF adapter = "chat" THEN chatBodies ELSE respBodies)
  /\ response_id \in ids
  /\ pos = 0
  /\ pc = "start"
  /\ buffer = <<>>
  /\ responseId = ""
  /\ hasStarted = FALSE
  /\ accumulatedContent = ""
  /\ events = <<>>
  /\ toolCalls = <<>>
  /\ handed = <<>>
  /\ failure = NoFailure
  /\ rpc = IF adapter = "chat" THEN "draining" ELSE "idle"
  /\ assistantMessage = NoMessage
  /\ unified = NoUnified
  /\ RequestIdle
  /\ CallsIdle
  /\ WebIdle
  /\ ParseIdle
  /\ locked = FALSE
  /\ cancelledAt = -1

InitFor(adapters, chatLines, respLines, ids) ==
  InitOn(adapters, Bodies(chatLines), Bodies(respLines), ids)

NextChat ==
  \/ CC_GetReaderThrows
  \/ CC_Start
  \/ CC_ReadChunk
  \/ CC_ReadDone
  \/ CC_ReadReject
  \/ R_Finish
  \/ R_Propagate

NextResponses ==
  \/ OA_Start
  \/ OA_ReadChunk
  \/ OA_ReadDone
  \/ OA_ReadReject

NextBuffered ==
  \/ RAB_Start
  \/ RAB_ReadChunk
  \/ RAB_ReadDone
  \/ RAB_ReadReject

\* The Chat-Completions adapter parsing a streamed response.
Init == InitFor({"chat"}, ChatLines, {}, {""})
Next == NextChat
Spec == Init /\ [][Next]_vars

\* The same adapter with a consumer that drains the generator (for await) and a
\* reader over a finite body: the reader does not leave a read pending for ever
\* but eventually reports done or rejects.
LiveLines == DataLines({"cA", "cBad"}) \cup {<<"D", "X">>}
InitLive == InitFor({"chat"}, LiveLines, {}, {""})
NextLive == NextChat
SpecLive == InitLive /\ [][NextLive]_vars
              /\ WF_vars(CC_ReadDone \/ CC_ReadReject)

\* Bodies whose last line may lack its newline: the stream ends right after the
\* text of that line.
TailBodies(lines) == {b \o t : b \in Bodies(lines), t \in lines \cup {<<>>}}

\* The two parsers that split the body into lines themselves, on bodies that
\* may end without a newline.
InitTail ==
  InitOn({"chat", "responsesBuffered"}, TailBodies(DataLines({"cA", "cU"})),
         TailBodies(DataLines({"rHi", "rFn"})), {""})
NextTail == NextChat \/ NextBuffered
SpecTail == InitTail /\ [][NextTail]_vars

\* The Responses-API adapter producing streaming events.
InitRA == InitFor({"responses"}, {}, RespLines, {""})
NextRA == NextResponses
SpecRA == InitRA /\ [][NextRA]_vars

\* The Responses-API adapter buffering a streamed response.
InitRAB == InitFor({"responsesBuffered"}, {}, RespLines, {""})
NextRAB == NextBuffered
SpecRAB == InitRAB /\ [][NextRAB]_vars

\* Both streaming event producers, on responses with and without an id.
InitStream == InitFor({"chat", "responses"}, ChatTextLines, RespTextLines, {"", "resp-0"})
NextStream == NextChat \/ NextResponses
SpecStream == InitStream /\ [][NextStream]_vars

\* No single-call parser is under way.
StreamIdle ==
  /\ adapter = "none" /\ body = <<>> /\ response_id = ""
  /\ pos = 0 /\ pc = "idle" /\ buffer = <<>>
  /\ responseId = "" /\ hasStarted = FALSE /\ accumulatedContent = ""
  /\ events = <<>> /\ toolCalls = <<>> /\ handed = <<>> /\ failure = NoFailure
  /\ rpc = "idle" /\ assistantMessage = NoMessage /\ unified = NoUnified
  /\ locked = FALSE /\ cancelledAt = -1

\* Two concurrent calls on one Chat-Completions adapter.
InitPar ==
  /\ StreamIdle
  /\ WebIdle
  /\ RequestIdle
  /\ ParseIdle
  /\ invocations \in [CallIds -> {NewCall(b) : b \in CallBodies}]
NextPar == PAR_Start \/ PAR_ReadChunk \/ PAR_ReadDone \/ PAR_ReadReject
SpecPar == InitPar /\ [][NextPar]_vars

\* The Chat-Completions producer and the buffering Responses-API parser, with
\* the transport aborted at any point of the read.
InitCancel == InitFor({"chat", "responsesBuffered"}, ChatTextLines, RespTextLines, {""})
NextCancel == NextChat \/ NextBuffered \/ CC_Cancel \/ RAB_Cancel
SpecCancel == InitCancel /\ [][NextCancel]_vars

\* The Responses-API adapter parsing a buffered response.
InitParse ==
  /\ StreamIdle
  /\ CallsIdle
  /\ WebIdle
  /\ version \in {"responses-2", "responses-3"}
  /\ capabilities = NoCapabilities
  /\ modelProfile = NoProfile
  /\ inputs = {}
  /\ requestsLeft = 0
  /\ params = NoParams
  /\ request = NoRequest
  /\ built = <<>>
  /\ qpc = "idle"
  /\ response \in Responses
  /\ ppc = "ready"
  /\ parsedChunk = RespEmpty
NextParse == RA2_ParseNonStreaming \/ RA_ParseNonStreaming
SpecParse == InitParse /\ [][NextParse]_vars

\* processStreamingChunk on a terminal event with any usage object.
InitUsage ==
  /\ StreamIdle
  /\ CallsIdle
  /\ WebIdle
  /\ RequestIdle
  /\ response = <<>>
  /\ ppc = "chunk"
  /\ parsedChunk \in {[RespEmpty EXCEPT !.type = "response.completed", !.usage = u] :
                         u \in ProviderUsages}
NextUsage == RA_ProcessStreamingChunk
SpecUsage == InitUsage /\ [][NextUsage]_vars

\* An adapter of one of `versions` on which the caller makes n createRequest
\* calls with params of `ins`.
RequestReady(versions, ins, n) ==
  /\ version \in versions
  /\ inputs = ins
  /\ requestsLeft = n
  /\ params = NoParams
  /\ request = NoRequest
  /\ built = <<>>
  /\ qpc = "ready"

\* The three revisions of the Responses-API adapter building a request.
InitReq ==
  /\ StreamIdle
  /\ CallsIdle
  /\ WebIdle
  /\ ParseIdle
  /\ RequestReady({"responses-1", "responses-2", "responses-3"},
                  Params \cup TemperatureParams, 1)
  /\ capabilities \in Capabilities
  /\ modelProfile \in Profiles
NextReq == RA1_CreateRequest \/ RA2_CreateRequest \/ RA_CreateRequest
SpecReq == InitReq /\ [][NextReq]_vars

\* The Chat-Completions adapter building a request.
InitChatReq ==
  /\ StreamIdle
  /\ CallsIdle
  /\ WebIdle
  /\ ParseIdle
  /\ RequestReady({"chat"}, ChatParams, 1)
  /\ capabilities \in ChatCapabilities
  /\ modelProfile \in ChatProfiles
NextChatReq == CC_CreateRequest
SpecChatReq == InitChatReq /\ [][NextChatReq]_vars

\* A capability descriptor and a model profile for each adapter.
PlainCapabilities(v) ==
  [NoCapabilities EXCEPT
     !.maxTokensField = IF v = "chat" THEN "max_tokens" ELSE "max_output_tokens",
     !.temperatureMode = "flexible",
     !.supportsParallelCalls = TRUE,
     !.supportsPreviousResponseId = (v # "chat")]
PlainProfile(v) ==
  [NoProfile EXCEPT !.modelName = IF v = "chat" THEN "gpt-4o" ELSE "gpt-5"]

\* Every adapter turning a conversation into a request.
InitInput ==
  /\ StreamIdle
  /\ CallsIdle
  /\ WebIdle
  /\ ParseIdle
  /\ RequestReady({"chat", "responses-1", "responses-2", "responses-3"}, MessageParams, 1)
  /\ capabilities = PlainCapabilities(version)
  /\ modelProfile = PlainProfile(version)
NextInput == CC_CreateRequest \/ RA1_CreateRequest \/ RA2_CreateRequest \/ RA_CreateRequest
SpecInput == InitInput /\ [][NextInput]_vars

\* The params of a caller that repeats itself.
RepeatParams ==
  {PlainParams,
   [PlainParams EXCEPT !.previousResponseId = Str("resp_0")],
   [PlainParams EXCEPT !.stream = Bool(TRUE), !.messages = <<"mU", "mAT", "mT1">>]}

\* One adapter instance building several requests, with responses parsed in
\* between: a streamed one by the Chat-Completions adapter, a buffered one by
\* the Responses-API adapter.
InitHist ==
  /\ CallsIdle
  /\ WebIdle
  /\ RequestReady({"chat", "responses-2"}, RepeatParams, MaxRequests)
  /\ capabilities = PlainCapabilities(version)
  /\ modelProfile = PlainProfile(version)
  /\ locked = FALSE /\ cancelledAt = -1
  /\ adapter = IF version = "chat" THEN "chat" ELSE "none"
  /\ body \in IF version = "chat" THEN Bodies(DataLines({"cA", "cU"})) ELSE {<<>>}
  /\ response_id = ""
  /\ pos = 0
  /\ pc = IF version = "chat" THEN "start" ELSE "idle"
  /\ buffer = <<>> /\ responseId = "" /\ hasStarted = FALSE /\ accumulatedContent = ""
  /\ events = <<>> /\ toolCalls = <<>> /\ handed = <<>> /\ failure = NoFailure
  /\ rpc = IF version = "chat" THEN "draining" ELSE "idle"
  /\ assistantMessage = NoMessage /\ unified = NoUnified
  /\ response \in IF version = "chat" THEN {<<>>} ELSE Responses
  /\ ppc = IF version = "chat" THEN "idle" ELSE "ready"
  /\ parsedChunk = RespEmpty
NextHist == NextChat \/ RA2_ParseNonStreaming \/ CC_CreateRequest \/ RA2_CreateRequest
SpecHist == InitHist /\ [][NextHist]_vars

\* One WebREPL and its client, which sends user_input, tool_approval and
\* interrupt messages in any order and closes the socket at any time.
InitRepl ==
  /\ StreamIdle
  /\ RequestIdle
  /\ CallsIdle
  /\ ParseIdle
  /\ WebIdle
NextRepl ==
  \/ REPL_UserInput
  \/ REPL_LLMResolves
  \/ REPL_LLMRejects
  \/ REPL_ToolReturns
  \/ REPL_ToolApproval
  \/ REPL_ApprovalTimeout
  \/ REPL_Interrupt
  \/ REPL_Cleanup
SpecRepl == InitRepl /\ [][NextRepl]_vars

\* One WebSocketBridge and its client, which sends user_input and interrupt
\* messages in any order.
InitBridge ==
  /\ StreamIdle
  /\ RequestIdle
  /\ CallsIdle
  /\ ParseIdle
  /\ WebIdle
NextBridge ==
  \/ WSB_UserInput
  \/ WSB_StartQuery
  \/ WSB_ContextFails
  \/ WSB_QueryEnds
  \/ WSB_Interrupt
SpecBridge == InitBridge /\ [][NextBridge]_vars

\* One connected SSE client with its keepalive timer and transport callbacks
\* set up (lines 636-654).
InitMcp ==
  /\ StreamIdle
  /\ RequestIdle
  /\ CallsIdle
  /\ ParseIdle
  /\ ReplIdle
  /\ BridgeIdle
  /\ isReconnecting = FALSE /\ reconnectAttempts = 0 /\ keepaliveTimer = TRUE
  /\ keepaliveCheck = FALSE /\ reconnects = <<>> /\ delays = <<>> /\ outcome = "none"
  /\ skipped = 0
NextMcp ==
  \/ MCP_KeepaliveTick
  \/ MCP_KeepaliveOk
  \/ MCP_KeepaliveFails
  \/ MCP_TransportError
  \/ MCP_TransportClose
  \/ MCP_DelayElapsed
  \/ MCP_ConnectSucceeds
  \/ MCP_ConnectFails
SpecMcp == InitMcp /\ [][NextMcp]_vars

-----------------------------------------------------------------------------
(* Properties *)

CountType(evs, t) == Cardinality({i \in 1..Len(evs) : evs[i].type = t})

RECURSIVE SelectType(_, _)
SelectType(evs, t) ==
  IF evs = <<>> THEN <<>>
  ELSE (IF Head(evs).type = t THEN <<Head(evs)>> ELSE <<>>) \o SelectType(Tail(evs), t)

\* The text of the text_delta events, in order.
RECURSIVE Deltas(_)
Deltas(evs) ==
  IF evs = <<>> THEN ""
  ELSE (IF Head(evs).type = "text_delta" THEN Head(evs).delta ELSE "") \o Deltas(Tail(evs))

IsPrefix(a, b) == Len(a) <= Len(b) /\ SubSeq(b, 1, Len(a)) = a

\* C1: a fully consumed event sequence of parseStreamingResponse holds exactly one
\* message_stop, as its last event, and at most one error event, which then comes
\* immediately before that message_stop; nothing of the two is emitted earlier.
C1_OneTerminalEvent ==
  /\ pc = "done" =>
       /\ events # <<>>
       /\ events[Len(events)].type = "message_stop"
       /\ CountType(events, "message_stop") = 1
       /\ CountType(events, "error") <= 1
       /\ \A i \in 1..Len(events) : events[i].type = "error" => i = Len(events) - 1
  /\ pc # "done" =>
       /\ CountType(events, "message_stop") = 0
       /\ CountType(events, "error") = 0

\* A stream that failed after events had been emitted, fully consumed.
C1_Witness ==
  /\ pc = "done"
  /\ CountType(events, "error") = 1
  /\ Len(events) >= 4

\* C2: message_start occurs at most once, and every text_delta has a
\* message_start before it.
C2_StartBeforeText ==
  /\ CountType(events, "message_start") <= 1
  /\ \A i \in 1..Len(events) :
       events[i].type = "text_delta" =>
         \E j \in 1..(i - 1) : events[j].type = "message_start"

\* Two text deltas have been emitted by each kind of producer.
C2_Witness ==
  /\ adapter = "chat"
  /\ CountType(events, "text_delta") >= 2
  /\ pc = "done"

\* C3: when reading the body fails after k events, the consumer has exactly those k
\* events, then one error event with the failure's message, then the closing
\* message, whose text is all the text emitted before the failure.
C3_FailureKeepsEvents ==
  failure.failed =>
    /\ Len(events) = Len(failure.before) + 2
    /\ SubSeq(events, 1, Len(failure.before)) = failure.before
    /\ events[Len(events) - 1] = ErrorEvent(failure.msg)
    /\ events[Len(events)].type = "message_stop"
    /\ events[Len(events)].text = Deltas(failure.before)

\* A read failed after text and other events had been emitted.
C3_Witness ==
  /\ failure.failed
  /\ Len(failure.before) >= 3
  /\ Deltas(failure.before) # ""

\* The tool-call indices of the chunk objects handed on so far.
C4_ToolCallIndices ==
  UNION {{ChatDoc(handed[i]).tool_calls[j].index :
             j \in 1..Len(ChatDoc(handed[i]).tool_calls)} : i \in 1..Len(handed)}

\* C4: every tool_request of the Chat-Completions stream carries an id, a name and
\* a complete argument text, and there is one tool_request per tool call.
C4_ToolRequestsComplete ==
  /\ \A i \in 1..Len(events) :
       events[i].type = "tool_request" =>
         /\ IsString(events[i].tool.id)
         /\ IsString(events[i].tool.name)
         /\ IsString(events[i].tool.input)
         /\ events[i].tool.input.s \in DOMAIN ArgsJson
  /\ CountType(events, "tool_request") <= Cardinality(C4_ToolCallIndices)

\* The newline-terminated lines of the body.
BodyLines == SubSeq(Split(body), 1, Len(Split(body)) - 1)

\* A well-formed event line: `data: ` and the JSON text of one chunk object.
IsEventLine(line) == \E d \in ChatDocNames : line = <<"D", d>>

RECURSIVE EventDocs(_)
EventDocs(lines) ==
  IF lines = <<>> THEN <<>>
  ELSE (IF IsEventLine(Head(lines)) THEN <<Head(lines)[2]>> ELSE <<>>)
       \o EventDocs(Tail(lines))

\* The lines up to and including the first one whose chunk object makes the
\* handler raise (its tool_calls cannot be iterated): that ends the stream.
RECURSIVE UpToRaise(_)
UpToRaise(lines) ==
  IF lines = <<>> THEN <<>>
  ELSE IF IsEventLine(Head(lines)) /\ ~ChatDoc(Head(lines)[2]).iterable
         THEN <<Head(lines)>>
  ELSE <<Head(lines)>> \o UpToRaise(Tail(lines))

C9_ReducerNeverRaises == rpc # "raised"

\* C10: the reduced message's input, output and total counts are those of the last
\* usage event, and 0 when there was none; so are those parseResponse returns.
C10_LastUsageWins ==
  rpc = "returned" =>
    LET us == SelectType(events, "usage")
        last == us[Len(us)].usage
        m == assistantMessage.usage
        u == unified.usage
    IN IF us = <<>>
         THEN /\ m.input_tokens.n = 0 /\ m.output_tokens.n = 0 /\ m.totalTokens.n = 0
              /\ u.input_tokens.n = 0 /\ u.output_tokens.n = 0 /\ u.totalTokens.n = 0
         ELSE /\ m.input_tokens = last.input_tokens
              /\ m.output_tokens = last.output_tokens
              /\ m.totalTokens = last.totalTokens
              /\ u.input_tokens = last.input_tokens
              /\ u.output_tokens = last.output_tokens
              /\ u.totalTokens = last.totalTokens

\* Two usage events with different counts were reduced.
C10_Witness ==
  /\ rpc = "returned"
  /\ Len(SelectType(events, "usage")) >= 2
  /\ SelectType(events, "usage")[1].usage # SelectType(events, "usage")[2].usage

\* C7: a payload of the Responses-API createRequest has a reasoning.effort value
\* exactly when its include list contains 'reasoning.encrypted_content'.
C7_ReasoningIffInclude ==
  qpc = "built" =>
    (request.reasoning.present
       <=> \E i \in 1..Len(request.include) :
             request.include[i] = "reasoning.encrypted_content")

\* A function_call item of an output-item-completed event whose call id, name and
\* arguments are all strings.
IsValidToolItem(d) ==
  /\ d.type = "response.output_item.done"
  /\ d.item.type = "function_call"
  /\ IsString(OrElse(d.item.call_id, d.item.id))
  /\ IsString(d.item.name)
  /\ IsString(d.item.arguments)

\* C5: parsing a Responses-API stream produces one tool call per
\* output-item-completed event with a valid function_call item, and no other.
C5_OnlyValidToolCalls ==
  /\ \A i \in 1..Len(toolCalls) :
       /\ IsString(toolCalls[i].id)
       /\ IsString(toolCalls[i].name)
       /\ IsString(toolCalls[i].arguments)
  /\ Len(toolCalls) + CountType(events, "tool_request")
       = Cardinality({i \in 1..Len(handed) : IsValidToolItem(RespDoc(handed[i]))})

\* C8: the three lines text delta "Hi", completion with usage input 5 and output 2,
\* end sentinel give exactly message_start, text_delta "Hi", usage 5 and 2,
\* message_stop with the text "Hi".
C8_ThreeLineStream ==
  (/\ BodyLines = << <<"D", "rHi">>, <<"D", "rDone">>, <<"D", "DONE">> >>
   /\ pc = "done" /\ ~failure.failed)
  => /\ Len(events) = 4
     /\ events[1].type = "message_start"
     /\ events[2].type = "text_delta" /\ events[2].delta = "Hi"
     /\ events[3].type = "usage"
     /\ events[3].usage.input_tokens = Def(5)
     /\ events[3].usage.output_tokens = Def(2)
     /\ events[4].type = "message_stop" /\ events[4].text = "Hi"

\* The three lines have been read to the end of the body.
C8_Witness ==
  /\ BodyLines = << <<"D", "rHi">>, <<"D", "rDone">>, <<"D", "DONE">> >>
  /\ pc = "done" /\ ~failure.failed
  /\ Len(events) = 4

RECURSIVE SelectBlocks(_, _)
SelectBlocks(blocks, t) ==
  IF blocks = <<>> THEN <<>>
  ELSE (IF Head(blocks).type = t THEN <<Head(blocks)>> ELSE <<>>)
       \o SelectBlocks(Tail(blocks), t)

\* C11: the reducer's result has no text block when no text_delta was received, and
\* otherwise one text block, the first block, whose text is the in-order
\* concatenation of all text_delta values.
C11_TextIsConcatenation ==
  rpc = "returned" =>
    LET texts == SelectBlocks(assistantMessage.content, "text") IN
      IF CountType(events, "text_delta") = 0
        THEN texts = <<>>
        ELSE /\ Len(texts) = 1
             /\ assistantMessage.content[1].type = "text"
             /\ texts[1].text = Deltas(events)

\* Text deltas on both sides of a tool request were reduced.
C11_Witness ==
  /\ rpc = "returned"
  /\ \E i, j, k \in 1..Len(events) :
       /\ i < j /\ j < k
       /\ events[i].type = "text_delta"
       /\ events[j].type = "tool_request"
       /\ events[k].type = "text_delta"

\* C12: no tool call's argument text makes the reducer raise: there is one tool-use
\* block per tool_request, in order, whose input is the parsed value of the
\* argument text, and the empty object when the text does not parse.
C12_ArgumentsTolerated ==
  /\ rpc = "raised" => pc = "raised"
  /\ rpc = "returned" =>
       LET reqs == SelectType(events, "tool_request")
           uses == SelectBlocks(assistantMessage.content, "tool_use")
       IN /\ Len(uses) = Len(reqs)
          /\ \A i \in 1..Len(reqs) :
               /\ uses[i].id = reqs[i].tool.id
               /\ uses[i].input =
                    IF IsString(reqs[i].tool.input)
                         /\ reqs[i].tool.input.s \in DOMAIN ArgsJson
                      THEN ArgsJson[reqs[i].tool.input.s]
                      ELSE "{}"

\* A tool call whose arguments do not parse was reduced, and one after it whose
\* arguments do.
C12_Witness ==
  /\ rpc = "returned"
  /\ LET uses == SelectBlocks(assistantMessage.content, "tool_use")
         reqs == SelectType(events, "tool_request")
     IN /\ Len(uses) = 2
        /\ reqs[1].tool.input.s \notin DOMAIN ArgsJson
        /\ uses[1].input = "{}"
        /\ uses[2].input = "{\"x\":1}"

\* C14: once a parseStreamingResponse call has been cancelled while awaiting a
\* chunk, its reader is released and no event is produced after the cancellation.
C14_CancelReleasesAndStops ==
  cancelledAt # -1 => (~locked /\ Len(events) = cancelledAt)

\* What a call running alone has yielded once its reader has delivered the
\* first n atoms of the body b.
SoloLocals(b, n) ==
  LET lines == Split(SubSeq(b, 1, n)) IN
    CC_processLines([responseId |-> FallbackId("chat"), hasStarted |-> FALSE,
                     acc |-> "", out |-> <<>>, handed |-> <<>>, toolCalls |-> <<>>,
                     thrown |-> FALSE, msg |-> ""],
                    SubSeq(lines, 1, Len(lines) - 1))

\* C13: under every interleaving of the chunk arrivals of two concurrent calls,
\* each call has yielded exactly the events it yields alone on its own body.
C13_CallsIndependent ==
  \A i \in DOMAIN invocations :
    LET c == invocations[i]
        solo == SoloLocals(c.body, c.pos)
        stop == CC_messageStop(solo.responseId, solo.acc)
    IN /\ c.pc = "start" => c.events = <<>>
       /\ c.pc = "reading" => c.events = solo.out
       /\ (c.pc = "done" /\ ~c.failed) => c.events = Append(solo.out, stop)
       /\ (c.pc = "done" /\ c.failed) =>
            \E e \in ReadErrors : c.events = solo.out \o <<ErrorEvent(e.message), stop>>

\* Two calls on different bodies are both in the middle of reading, each having
\* started its message.
C13_Witness ==
  /\ invocations # <<>>
  /\ invocations[1].pc = "reading" /\ invocations[1].hasStarted
  /\ invocations[2].pc = "reading" /\ invocations[2].hasStarted
  /\ invocations[1].body # invocations[2].body
  /\ invocations[1].pos < Len(invocations[1].body)
  /\ invocations[2].pos < Len(invocations[2].body)

\* C16: the content of every result of the Chat-Completions parseResponse is a
\* non-empty sequence of blocks, and exactly one empty text block when the
\* response had neither text nor tool calls.
C16_ContentNeverEmpty ==
  rpc = "returned" =>
    /\ unified.content # <<>>
    /\ (CountType(events, "text_delta") = 0 /\ CountType(events, "tool_request") = 0)
         => unified.content = <<TextBlock("")>>

C19_SystemEntriesForNonEmptyPrompts ==
  (version = "chat" /\ qpc = "built") =>
    LET nonEmpty == SelectSeq(params.systemPrompt, LAMBDA p : p # <<>>)
    IN  /\ Len(request.messages) = Len(nonEmpty) + Len(params.messages)
        /\ request.messages =
             [i \in 1..Len(nonEmpty) |-> SystemEntry(nonEmpty[i])]
             \o [i \in 1..Len(params.messages) |-> CallerEntry(params.messages[i])]

\* C20: outside the fixed_one mode of a capability descriptor the resolved
\* temperature is the caller's temperature when the caller gave one and 0.7
\* otherwise (min(1, 0.7) in restricted mode), and the Chat-Completions payload
\* carries the resolved temperature.
C20_CallerTemperatureResolved ==
  (version = "chat" /\ qpc = "built" /\ ~StartsWithO1(modelProfile.modelName)) =>
    /\ capabilities.temperatureMode = "flexible" =>
         request.temperature = Nullish(params.temperature, Def(7))
    /\ capabilities.temperatureMode = "restricted" =>
         request.temperature = Def(IF 10 < 7 THEN 10 ELSE 7)

\* The call id of a tool-result message: message.tool_call_id || message.id.
ToolCallId(m) == OrElse(m.tool_call_id, m.id)

\* A tool-result message: a tool message that carries a call id.
IsToolResult(name) ==
  /\ Message(name).role = "tool"
  /\ IsString(ToolCallId(Message(name))) /\ Truthy(ToolCallId(Message(name)))

C21_FixedOneTemperature ==
  (version \in {"responses-1", "responses-2", "responses-3"} /\ qpc = "built"
     /\ capabilities.temperatureMode = "fixed_one") =>
    /\ getTemperature(capabilities) = 10
    /\ request.temperature = Def(10)

\* A fixed_one adapter that was asked for temperature 0.2 and built a payload
\* with temperature 1.
C21_Witness ==
  /\ version = "responses-2" /\ qpc = "built"
  /\ capabilities.temperatureMode = "fixed_one"
  /\ params.temperature = Def(2)
  /\ request.temperature = Def(10)

\* C22: every Responses-API request payload has stream = true, whether the
\* caller's stream hint is true, false or absent.
C22_StreamAlwaysTrue ==
  (version \in {"responses-1", "responses-2", "responses-3"} /\ qpc = "built") =>
    request.stream = Bool(TRUE)

\* C23: in every Chat-Completions payload stream = true and
\* stream_options.include_usage = true are both present or both absent; they
\* are present exactly when the caller's stream hint is true and the model name
\* does not start with 'o1'; an 'o1' payload has no temperature either.
C23_StreamAndOptionsTogether ==
  (version = "chat" /\ qpc = "built") =>
    LET o1 == StartsWithO1(modelProfile.modelName)
        streams == request.stream = Bool(TRUE)
        options == request.stream_options.present /\ request.stream_options.include_usage
    IN  /\ streams <=> options
        /\ request.stream \in {Undef, Bool(TRUE)}
        /\ request.stream_options.present => request.stream_options.include_usage
        /\ streams <=> (params.stream = Bool(TRUE) /\ ~o1)
        /\ o1 => request.temperature = NoNum

\* An o1 model asked to stream: the payload has none of stream, stream_options
\* and temperature.
C23_Witness ==
  /\ version = "chat" /\ qpc = "built"
  /\ modelProfile.modelName = "o1-mini"
  /\ params.stream = Bool(TRUE)
  /\ request.stream = Undef
  /\ ~request.stream_options.present
  /\ request.temperature = NoNum

\* A string of nothing but blanks (the empty string is one).
IsBlank(p) == \A i \in 1..Len(p) : p[i] = "SP"

RECURSIVE JoinedPrompts(_, _)
\* The prompts that are in `kept`, in order, with a blank line between each two.
JoinedPrompts(prompts, kept) ==
  IF prompts = <<>> THEN <<>>
  ELSE IF Head(prompts) \notin kept THEN JoinedPrompts(Tail(prompts), kept)
  ELSE IF \A i \in 1..Len(Tail(prompts)) : Tail(prompts)[i] \notin kept THEN Head(prompts)
  ELSE Head(prompts) \o <<"NL", "NL">> \o JoinedPrompts(Tail(prompts), kept)

\* No item of a Responses-API input list is a system entry, and the list is
\* the one the same conversation gives without any system prompt.
NoPromptInInput ==
  /\ \A i \in 1..Len(request.input) : request.input[i].role # "system"
  /\ request.input = convertMessagesToInput(params.messages)

\* C24 (as stated): the instructions string of a Responses-API payload is the
\* non-empty system prompts, in order, joined by a blank line, and no system
\* prompt is an item of the input list.
C24_NonEmptyPromptsJoined ==
  (version \in {"responses-1", "responses-2", "responses-3"} /\ qpc = "built") =>
    /\ request.instructions = JoinedPrompts(params.systemPrompt, {p \in Prompts : p # <<>>})
    /\ NoPromptInInput

\* C24 (amended): the instructions string of a Responses-API payload is the
\* system prompts that are not blank (not empty once trimmed), in order, joined
\* by a blank line, and no system prompt is an item of the input list.
C24_NonBlankPromptsJoined ==
  (version \in {"responses-1", "responses-2", "responses-3"} /\ qpc = "built") =>
    /\ request.instructions = JoinedPrompts(params.systemPrompt, {p \in Prompts : ~IsBlank(p)})
    /\ NoPromptInInput

\* Two system prompts joined by a blank line, beside a conversation of a user
\* message and a tool result.
C24_Witness ==
  /\ version = "responses-2" /\ qpc = "built"
  /\ params.systemPrompt = << <<"s1">>, <<"s2">> >>
  /\ params.messages = <<"mU", "mT1">>
  /\ request.instructions = <<"s1", "NL", "NL", "s2">>
  /\ Len(request.input) = 2

\* C25: the tool-call list of a parsed buffered Responses-API result has exactly
\* one entry for each function_call item of the output array, in output order,
\* with that item's call id, name and arguments, whatever message items the
\* array holds.  (Entries made for items of the alternative type tool_call are
\* left aside.)
C25_OneCallPerFunctionCallItem ==
  ppc = "returned" =>
    LET items == SelectSeq(response.output, LAMBDA it : it.type = "function_call")
        calls == SelectSeq(unified.toolCalls, LAMBDA tc : tc.type # "tool_call")
    IN  /\ Len(calls) = Len(items)
        /\ \A i \in 1..Len(items) :
             i <= Len(calls) =>
               /\ calls[i].id = items[i].call_id
               /\ calls[i].name = items[i].name
               /\ calls[i].arguments = items[i].arguments

\* The lines of the body that are events carrying a usage object.
UsageLines ==
  SelectSeq(BodyLines,
            LAMBDA l : /\ Len(l) = 2 /\ l[1] = "D"
                       /\ IF adapter = "chat"
                            THEN l[2] \in ChatDocNames /\ ChatDoc(l[2]).usage.present
                            ELSE l[2] \in RespDocNames /\ RespDoc(l[2]).usage.present)

C27_UsageCounts ==
  ppc = "yielded" =>
    LET u == parsedChunk.usage
        i == IF u.input_tokens.def THEN u.input_tokens.n ELSE 0
        o == IF u.output_tokens.def THEN u.output_tokens.n ELSE 0
    IN  /\ Len(events) = 1
        /\ events[1].type = "usage"
        /\ events[1].usage.promptTokens = i
        /\ events[1].usage.input_tokens = Def(i)
        /\ events[1].usage.completionTokens = o
        /\ events[1].usage.output_tokens = Def(o)
        /\ events[1].usage.totalTokens =
             Def(IF u.total_tokens.def THEN u.total_tokens.n ELSE i + o)
        /\ events[1].usage.reasoningTokens =
             (IF u.reasoning_tokens.def THEN u.reasoning_tokens.n ELSE 0)

\* A terminal event with a total that is not the sum of its counts and no
\* output count: the usage event reports the provider's total.
C27_Witness ==
  /\ ppc = "yielded"
  /\ parsedChunk.usage.input_tokens = Def(5)
  /\ parsedChunk.usage.output_tokens = NoNum
  /\ parsedChunk.usage.total_tokens = Def(25)
  /\ parsedChunk.usage.reasoning_tokens = Def(3)
  /\ events[1].usage.totalTokens = Def(25)
  /\ events[1].usage.completionTokens = 0
  /\ events[1].usage.reasoningTokens = 3

\* The response ids the chunks of the stream carried, in order.
SuppliedIds ==
  SelectSeq([i \in 1..Len(handed) |-> ChatDoc(handed[i]).id], LAMBDA id : id # "")

\* C28: the id of the reducer's result is the response id the stream carried
\* whenever it carried one, and the fallback id (the response's own id, or a
\* generated one) only when no chunk carried an id.
C28_StreamIdWins ==
  (adapter = "chat" /\ rpc = "returned") =>
    LET fallback == IF response_id # "" THEN response_id ELSE FallbackId("chat")
    IN  IF SuppliedIds # <<>>
          THEN /\ unified.id = SuppliedIds[Len(SuppliedIds)]
               /\ assistantMessage.responseId = SuppliedIds[Len(SuppliedIds)]
          ELSE /\ unified.id = fallback
               /\ assistantMessage.responseId = fallback

\* The events parseStreamingResponse yields, short of the closing ones, when
\* `text` arrives in a single chunk: those of its newline-terminated lines.
SingleChunk(text) ==
  CC_processLines([responseId |-> IF response_id # "" THEN response_id
                                                      ELSE FallbackId("chat"),
                   hasStarted |-> FALSE, acc |-> "", out |-> <<>>, handed |-> <<>>,
                   toolCalls |-> <<>>, thrown |-> FALSE, msg |-> ""],
                  SubSeq(Split(text), 1, Len(Split(text)) - 1))

\* C29: however the body is split into chunks, the events are those of the body
\* delivered in a single chunk.  While reading, the events so far are exactly
\* those of the newline-terminated lines received so far, in line order (a line
\* whose newline has not arrived has produced nothing); at the end they are
\* those of the whole body and the closing ones.
C29_ChunkingIrrelevant ==
  adapter = "chat" =>
    /\ pc = "reading" =>
         /\ ~SingleChunk(SubSeq(body, 1, pos)).thrown
         /\ events = SingleChunk(SubSeq(body, 1, pos)).out
    /\ (pc = "done" /\ ~failure.failed) =>
         LET st == SingleChunk(body)
         IN  events = st.out \o (IF st.thrown THEN <<ErrorEvent(st.msg)>> ELSE <<>>)
                             \o <<CC_messageStop(st.responseId, st.acc)>>

\* One line has been parsed and the next has arrived in full but for its
\* newline: it is held back and has produced no event.
C29_Witness ==
  /\ adapter = "chat" /\ pc = "reading"
  /\ buffer = <<"D", "cAR">>
  /\ handed = <<"cA">>
  /\ Len(events) = 2

\* The plain text followed by the reasoning text of each chunk object handed to
\* the handler, chunks without either left out.
RECURSIVE ChunkTexts(_)
ChunkTexts(docs) ==
  IF docs = <<>> THEN <<>>
  ELSE LET d == ChatDoc(Head(docs))
           text == IF d.hasDelta THEN d.content \o d.reasoning_content ELSE ""
       IN  (IF text # "" THEN <<text>> ELSE <<>>) \o ChunkTexts(Tail(docs))

\* C30: in a Chat-Completions stream every chunk with plain text or reasoning
\* text yields one text_delta holding the plain text followed by the reasoning
\* text, a chunk with neither yields none, and the text of message_stop is the
\* concatenation, in order, of the deltas of the text_delta events of the stream.
C30_TextChannel ==
  adapter = "chat" =>
    /\ LET deltas == SelectType(events, "text_delta")
       IN  [i \in 1..Len(deltas) |-> deltas[i].delta] = ChunkTexts(handed)
    /\ \A i \in 1..Len(events) :
         events[i].type = "message_stop" =>
           events[i].text = Deltas(SubSeq(events, 1, i - 1))

\* A finished stream of a plain-text chunk and a chunk with text and reasoning.
C30_Witness ==
  /\ adapter = "chat" /\ pc = "done"
  /\ handed = <<"cA", "cAR">>
  /\ Len(events) = 4
  /\ events[3].delta = "br"
  /\ events[4].type = "message_stop" /\ events[4].text = "abr"

\* C31: once parseStreamingResponse holds a reader over a finite body and is
\* fully consumed, it eventually emits message_stop as its last event and
\* completes; every read that does not end the loop consumes input, so the reads
\* are finitely many; and after the reader has reported done or rejected there
\* is no further read and no further event.
C31_TerminatesWithoutRetry ==
  /\ (adapter = "chat" /\ pc = "reading")
       ~> (pc = "done" /\ events # <<>> /\ events[Len(events)].type = "message_stop")
  /\ [][(pc = "reading" /\ pc' = "reading") => pos' > pos]_vars
  /\ [][pc = "done" => (pc' = "done" /\ pos' = pos /\ events' = events)]_vars

\* The reader reported done after the whole of a three-line body was read.
C31_Witness ==
  /\ adapter = "chat" /\ pc = "done" /\ ~failure.failed
  /\ Len(BodyLines) = 3 /\ pos = Len(body)
  /\ events[Len(events)].type = "message_stop"

\* The JSON values of the well-formed data lines among `lines`, in order.
RECURSIVE DataDocs(_)
DataDocs(lines) ==
  IF lines = <<>> THEN <<>>
  ELSE (IF Trim(Head(lines)) # <<>> /\ ~parseSSEChunk(Head(lines)).null
          THEN <<parseSSEChunk(Head(lines)).doc>> ELSE <<>>) \o DataDocs(Tail(lines))

\* C32: when the stream has been read to its end, every well-formed data line
\* of the body has been handed to the chunk handler, in order, the last line
\* included even when no newline follows it.
C32_NoLineLost ==
  (adapter \in {"chat", "responsesBuffered"} /\ pc = "done" /\ ~failure.failed)
    => handed = DataDocs(Split(body))

\* C33: the payload of the Responses-API createRequest (responsesAPI.ts:362-424,
\* part_017:7-69) has reasoning, and 'reasoning.encrypted_content' in include,
\* exactly when the capability descriptor supports reasoning effort or the
\* caller supplied a reasoningEffort; the effort is the caller's when supplied,
\* otherwise the model profile's, otherwise 'medium'.
C33_ReasoningWhenSupportedOrAsked ==
  (version \in {"responses-2", "responses-3"} /\ qpc = "built") =>
    LET supplied == params.reasoningEffort \notin {Undef, Str("")}
        wanted == capabilities.supportsReasoningEffort \/ supplied
    IN  /\ request.reasoning.present <=> wanted
        /\ request.include = IF wanted THEN <<"reasoning.encrypted_content">> ELSE <<>>
        /\ wanted =>
             request.reasoning.effort =
               IF supplied THEN params.reasoningEffort
               ELSE IF modelProfile.reasoningEffort # Undef THEN modelProfile.reasoningEffort
               ELSE Str("medium")

\* A model without reasoning-effort support whose caller asked for 'high'.
C33_Witness ==
  /\ version = "responses-3" /\ qpc = "built"
  /\ ~capabilities.supportsReasoningEffort
  /\ params.reasoningEffort = Str("high")
  /\ modelProfile.reasoningEffort = Str("low")
  /\ request.reasoning = [present |-> TRUE, effort |-> Str("high")]
  /\ request.include = <<"reasoning.encrypted_content">>

\* The non-empty texts of the text parts of an array content.
RECURSIVE TextPartTexts(_)
TextPartTexts(parts) ==
  IF parts = <<>> THEN <<>>
  ELSE LET p == Head(parts)
           t == IF p.text \notin {Undef, Str("")} THEN p.text ELSE p.content
       IN  (IF p.type = "text" /\ IsString(t) /\ t.s # "" THEN <<t.s>> ELSE <<>>)
           \o TextPartTexts(Tail(parts))

\* The text content of a message: its non-empty string, or the texts of its parts.
TextsOf(m) ==
  IF m.content.t = "array" THEN TextPartTexts(m.content.parts)
  ELSE IF IsString(m.content) /\ m.content.s # "" THEN <<m.content.s>>
  ELSE <<>>

\* For each non-tool message with text content, in order, its role and texts.
RECURSIVE ExpectedMessageItems(_)
ExpectedMessageItems(names) ==
  IF names = <<>> THEN <<>>
  ELSE LET m == Message(Head(names))
       IN  (IF m.role # "tool" /\ TextsOf(m) # <<>>
              THEN << [role |-> m.role, texts |-> TextsOf(m)] >> ELSE <<>>)
           \o ExpectedMessageItems(Tail(names))

\* The texts of the text entries of a message item's content.
RECURSIVE ItemTexts(_)
ItemTexts(content) ==
  IF content = <<>> THEN <<>>
  ELSE (IF Head(content).type \in {"input_text", "output_text"}
          THEN <<Head(content).text>> ELSE <<>>) \o ItemTexts(Tail(content))

\* The message items of an input list, in order, by role and texts.
RECURSIVE MessageItemsOf(_)
MessageItemsOf(items) ==
  IF items = <<>> THEN <<>>
  ELSE (IF Head(items).type = "message"
          THEN << [role |-> Head(items).role, texts |-> ItemTexts(Head(items).content)] >>
          ELSE <<>>) \o MessageItemsOf(Tail(items))

\* C34: the message items of the Responses-API input list are, in source order,
\* one per non-tool message with non-empty text content, each carrying that
\* message's text; an assistant message that also has tool_calls is no exception.
C34_OneItemPerTextMessage ==
  (version \in {"responses-1", "responses-2", "responses-3"} /\ qpc = "built") =>
    MessageItemsOf(request.input) = ExpectedMessageItems(params.messages)

\* C35: the content the reducer returns holds, after all its text, one tool-use
\* block per tool_request event received, in arrival order, with that event's
\* id and name; the toolCalls of the streamed parseResponse list the same calls
\* in the same order.
C35_OneBlockPerToolRequest ==
  (adapter = "chat" /\ rpc = "returned") =>
    LET reqs == SelectType(events, "tool_request")
        content == assistantMessage.content
        n == Len(content) - Len(reqs)
    IN  /\ n >= 0
        /\ \A i \in 1..n : content[i].type = "text"
        /\ \A i \in 1..Len(reqs) :
             /\ content[n + i].type = "tool_use"
             /\ content[n + i].id = reqs[i].tool.id
             /\ content[n + i].name = reqs[i].tool.name
        /\ Len(unified.toolCalls) = Len(reqs)
        /\ \A i \in 1..Len(reqs) :
             /\ unified.toolCalls[i].id = reqs[i].tool.id
             /\ unified.toolCalls[i].name = reqs[i].tool.name

\* A reply of text followed by two tool_request events, reduced.
C35_Witness ==
  /\ adapter = "chat" /\ rpc = "returned"
  /\ Len(SelectType(events, "tool_request")) = 2
  /\ Len(assistantMessage.content) = 3
  /\ assistantMessage.content[1].type = "text"
  /\ assistantMessage.content[3].type = "tool_use"
  /\ Len(unified.toolCalls) = 2

\* The processUserInput calls that have not returned.
InFlight == {i \in DOMAIN userInputs : userInputs[i].pc # "returned"}

\* C36: a WebREPL has at most one processUserInput call that has not returned,
\* whatever the order of user_input and interrupt messages: a user_input that
\* arrives while one is in flight, interrupted or not, starts no further call.
C36_OneRequestInFlight == Cardinality(InFlight) <= 1

\* C37: a tool that is not read-only is executed only after a tool_approval with
\* approved = true for its tool call id has resolved its pending permission
\* request; after a denial, the timeout or cleanup it is not executed and the
\* permission-denied result is reported; and each permission request is
\* resolved exactly once: never twice, and once as soon as it is no longer
\* pending.
C37_ExecutedOnlyWhenApproved ==
  \A i \in DOMAIN userInputs :
    userInputs[i].block = "writeTool" =>
      LET call == userInputs[i] IN
      /\ call.executed =>
           call.resolves = << [by |-> "tool_approval", approved |-> TRUE] >>
      /\ (call.resolves # <<>> /\ ~call.resolves[1].approved) =>
           (~call.executed /\ call.denied)
      /\ Len(call.resolves) <= 1
      /\ (i \in pendingApprovals) <=> (call.resolves = <<>>)
      /\ (i \in pendingApprovals) <=> (call.pc = "approval")

\* One tool call was approved and executed, another timed out and was reported
\* as denied.
C37_Witness ==
  \E i, j \in DOMAIN userInputs :
    /\ userInputs[i].block = "writeTool" /\ userInputs[i].executed
    /\ userInputs[i].resolves = << [by |-> "tool_approval", approved |-> TRUE] >>
    /\ userInputs[j].block = "writeTool" /\ userInputs[j].denied
    /\ userInputs[j].resolves = << [by |-> "timeout", approved |-> FALSE] >>

\* C38: whenever a query of the WebSocketBridge is in flight, the controller the
\* bridge holds, the one an interrupt aborts, is the controller that was passed
\* to that query, whatever the order of user_input and interrupt messages.
C38_InterruptAbortsTheQuery ==
  \A i \in DOMAIN bridgeInputs :
    bridgeInputs[i].pc = "query" =>
      /\ bridgeInputs[i].passed # 0
      /\ bridgeAbortController = bridgeInputs[i].passed

\* C39: for one MCP client at most one reconnection attempt (backoff wait plus
\* connect) is under way at any time, and isReconnecting is set exactly while
\* it is, whatever the order of keepalive failures and transport onerror and
\* onclose callbacks.
C39_OneReconnectAtATime ==
  /\ Len(reconnects) <= 1
  /\ isReconnecting <=> (Len(reconnects) = 1)

\* The third attempt of an episode is connecting, two attemptReconnect calls
\* have returned at the guard and a keepalive check is still awaited.
C39_Witness ==
  /\ isReconnecting
  /\ skipped = 2
  /\ reconnects = << [pc |-> "connecting", attempts |-> 2] >>
  /\ keepaliveCheck

\* C40: a reconnection episode makes at most MAX_RECONNECT_ATTEMPTS (5)
\* consecutive failed attempts, waits 1000, 2000, 4000, 8000 and 16000 ms (the
\* values of min(1000 * 2^n, 30000)) before attempts 1 to 5, and after the fifth
\* failure gives up with nothing left under way; a successful attempt resets the
\* attempt counter to 0.
C40_BoundedBackoff ==
  /\ reconnectAttempts \in 0..5
  /\ Len(delays) <= 5
  /\ delays = SubSeq(<<1000, 2000, 4000, 8000, 16000>>, 1, Len(delays))
  /\ \A i \in DOMAIN reconnects :
       /\ reconnects[i].attempts = reconnectAttempts
       /\ reconnects[i].attempts < 5
       /\ Len(delays) = reconnects[i].attempts + 1
  /\ outcome = "gaveUp" =>
       (reconnectAttempts = 5 /\ ~isReconnecting /\ reconnects = <<>>)
  /\ outcome = "succeeded" => reconnectAttempts = 0
  /\ outcome = "failed" => (isReconnecting /\ reconnectAttempts \in 1..4)

\* Five attempts failed one after the other and the client gave up.
C40_Witness ==
  /\ outcome = "gaveUp"
  /\ reconnectAttempts = 5
  /\ delays = <<1000, 2000, 4000, 8000, 16000>>
  /\ ~isReconnecting /\ reconnects = <<>>
====
